---- MODULE Spec2Model ----
(***************************************************************************)
(* Model of api/recipe.js: the recipe gateway.  Module state is the        *)
(* response cache (recipeCache), the rate-limit table (rateLimitMap) and   *)
(* the wall clock read through Date.now().  Operations are getCached,      *)
(* setCache, checkRateLimit, the setInterval sweep and the two request     *)
(* handlers of the file.                                                   *)
(***************************************************************************)
EXTENDS Integers, Sequences, FiniteSets, TLC

VARIABLES now,          \* Date.now(), in milliseconds
          rateLimitMap, \* Map ip -> timestamps (a function on the ips present)
          recipeCache,  \* Map url -> {data, timestamp}, in Map iteration order
          rlCall,       \* observation of the latest checkRateLimit call
          rlHist,       \* per client: calls made, accepted calls of the trailing window
          cacheOp,      \* observation of the latest getCached / setCache call
          stamp,        \* per cached key: the number of the insertion that created it
          req,          \* per request context: idle, or suspended at its fetch
          last,         \* observation of the latest handler run that ended
          pure,         \* a function of the file applied on its own: argument and result
          unswept       \* the rate-limit table and latest result of the run with no sweep

vars == <<now, rateLimitMap, recipeCache, rlCall, rlHist, cacheOp, stamp, req, last, pure, unswept>>

rlVars == <<rateLimitMap, rlCall, rlHist>>

cacheVars == <<recipeCache, cacheOp, stamp>>

reqVars == <<req, last>>

----------------------------------------------------------------------------
(* Program constants *)

CACHE_TTL_MS == 3600000

FETCH_TIMEOUT_MS == 10000

\* 2 * 1024 * 1024
MAX_HTML_LENGTH == 2097152

CACHE_MAX_ENTRIES == 200

RATE_LIMIT_WINDOW_MS == 60000

RATE_LIMIT_MAX == 10

----------------------------------------------------------------------------
(* Bounds of the model *)

\* the clock advances in steps of TickMs (two steps make one rate window)
TickMs == 30000

\* number of such clock advances in one behaviour
MaxTicks == 2

\* number of times the clock jumps ahead by the cache TTL in one behaviour
MaxHours == 1

\* number of checkRateLimit calls in one behaviour of the rate-limiter specification
MaxCalls == 12

\* number of cache calls in one behaviour of the cache specification
MaxCacheOps == 3

\* number of request contexts that can be suspended at their fetch at the same time
MaxInflight == 2

\* number of handler invocations in one behaviour
MaxRequests == 2

\* number of JSON-LD candidates of a page
MaxCandidates == 2

----------------------------------------------------------------------------
(* Generic helpers *)

\* the JavaScript value null
NULL == [k |-> "null"]

\* no function is applied on its own
NoPure == [fn |-> "", arg |-> NULL, out |-> NULL]

NoSweepRun == [map |-> <<>>, ret |-> TRUE]

Range(s) == {s[i] : i \in DOMAIN s}

\* f with key k bound to v (Map.prototype.set on a function)
MapSet(f, k, v) == [x \in (DOMAIN f) \cup {k} |-> IF x = k THEN v ELSE f[x]]

\* f without key k (Map.prototype.delete)
MapDelete(f, k) == [x \in (DOMAIN f) \ {k} |-> f[x]]

EmptyMap == [x \in {} |-> 0]

----------------------------------------------------------------------------
(* Rate limiting: checkRateLimit and the sweep *)

\* a plausible slip: a timestamp exactly one window old is still counted
filterWindow_Inclusive(timestamps, t) ==
    SelectSeq(timestamps, LAMBDA x : t - x <= RATE_LIMIT_WINDOW_MS)

\* entry.timestamps.filter(t => now - t < RATE_LIMIT_WINDOW_MS)
filterWindow(timestamps, t) == SelectSeq(timestamps, LAMBDA x : t - x < RATE_LIMIT_WINDOW_MS)

\* a plausible slip: the limit is compared with > instead of >=
checkRateLimit_OffByOne(map, ip, t) ==
    IF ip \notin DOMAIN map
    THEN [ret |-> TRUE, map |-> MapSet(map, ip, <<t>>)]
    ELSE LET kept == filterWindow(map[ip], t)
         IN  IF Len(kept) > RATE_LIMIT_MAX
             THEN [ret |-> FALSE, map |-> [map EXCEPT ![ip] = kept]]
             ELSE [ret |-> TRUE,  map |-> [map EXCEPT ![ip] = Append(kept, t)]]

\* a plausible slip: a rejected call is recorded like an accepted one
checkRateLimit_RecordsRejected(map, ip, t) ==
    IF ip \notin DOMAIN map
    THEN [ret |-> TRUE, map |-> MapSet(map, ip, <<t>>)]
    ELSE LET kept == filterWindow(map[ip], t)
         IN  IF Len(kept) >= RATE_LIMIT_MAX
             THEN [ret |-> FALSE, map |-> [map EXCEPT ![ip] = Append(kept, t)]]
             ELSE [ret |-> TRUE,  map |-> [map EXCEPT ![ip] = Append(kept, t)]]

\* checkRateLimit(ip) called at time t: its return value and rateLimitMap afterwards
checkRateLimit(map, ip, t) ==
    IF ip \notin DOMAIN map
    THEN [ret |-> TRUE, map |-> MapSet(map, ip, <<t>>)]
    ELSE LET kept == filterWindow(map[ip], t)
         IN  IF Len(kept) >= RATE_LIMIT_MAX
             THEN [ret |-> FALSE, map |-> [map EXCEPT ![ip] = kept]]
             ELSE [ret |-> TRUE,  map |-> [map EXCEPT ![ip] = Append(kept, t)]]

\* a plausible slip: the callback clears the whole map
sweepMap_DropsAll(map, t) == EmptyMap

\* a plausible slip: stale timestamps are purged, but a client left with none stays
sweepMap_KeepsEmpty(map, t) == [ip \in DOMAIN map |-> filterWindow(map[ip], t)]

\* rateLimitMap after one run of the setInterval callback at time t
sweepMap(map, t) ==
    LET live == {ip \in DOMAIN map : Len(filterWindow(map[ip], t)) # 0}
    IN  [ip \in live |-> filterWindow(map[ip], t)]

----------------------------------------------------------------------------
(* Response cache: getCached and setCache *)

KeysOf(cache) == {cache[i].url : i \in DOMAIN cache}

\* recipeCache.get(url): the entry's position, 0 when absent
CacheIndex(cache, url) ==
    IF url \in KeysOf(cache) THEN CHOOSE i \in DOMAIN cache : cache[i].url = url ELSE 0

\* recipeCache.delete(url)
CacheDelete(cache, url) == SelectSeq(cache, LAMBDA e : e.url # url)

\* a plausible slip: an entry exactly as old as the TTL already counts as expired
getCached_ExpiresAtTtl(cache, url, t) ==
    LET i == CacheIndex(cache, url)
    IN  IF i = 0 THEN [ret |-> NULL, cache |-> cache]
        ELSE IF t - cache[i].timestamp >= CACHE_TTL_MS
             THEN [ret |-> NULL, cache |-> CacheDelete(cache, url)]
             ELSE [ret |-> cache[i].data, cache |-> cache]

\* getCached(url) called at time t: its return value and recipeCache afterwards
getCached(cache, url, t) ==
    LET i == CacheIndex(cache, url)
    IN  IF i = 0 THEN [ret |-> NULL, cache |-> cache]
        ELSE IF t - cache[i].timestamp > CACHE_TTL_MS
             THEN [ret |-> NULL, cache |-> CacheDelete(cache, url)]
             ELSE [ret |-> cache[i].data, cache |-> cache]

\* a plausible slip: the capacity test is > instead of >=
setCacheEvict_OnlyAbove(cache) ==
    IF Len(cache) > CACHE_MAX_ENTRIES THEN CacheDelete(cache, cache[1].url) ELSE cache

\* a plausible slip: the key deleted at capacity is the last of the Map, not the first
setCacheEvict_Newest(cache) ==
    IF Len(cache) >= CACHE_MAX_ENTRIES THEN CacheDelete(cache, cache[Len(cache)].url) ELSE cache

\* the capacity branch of setCache: delete the first key of the Map
setCacheEvict(cache) ==
    IF Len(cache) >= CACHE_MAX_ENTRIES THEN CacheDelete(cache, cache[1].url) ELSE cache

\* recipeCache.set(url, {data, timestamp}): a present key keeps its position
CacheSet(cache, url, data, t) ==
    LET i == CacheIndex(cache, url)
        e == [url |-> url, data |-> data, timestamp |-> t]
    IN  IF i = 0 THEN Append(cache, e) ELSE [cache EXCEPT ![i] = e]

\* recipeCache after setCache(url, data) called at time t
setCache(cache, url, data, t) == CacheSet(setCacheEvict(cache), url, data, t)

----------------------------------------------------------------------------
(* Strings: the characters of a string are read with SubSeq *)

Char(s, i) == SubSeq(s, i, i)

UpperLetters == "ABCDEFGHIJKLMNOPQRSTUVWXYZ"

LowerLetters == "abcdefghijklmnopqrstuvwxyz"

Digits == "0123456789"

\* the position of character c in the string alphabet, 0 when it is not in it
IndexIn(alphabet, c) ==
    IF \E i \in 1..Len(alphabet) : Char(alphabet, i) = c
    THEN CHOOSE i \in 1..Len(alphabet) : Char(alphabet, i) = c
    ELSE 0

LowerChar(c) ==
    IF IndexIn(UpperLetters, c) # 0 THEN Char(LowerLetters, IndexIn(UpperLetters, c)) ELSE c

\* String.prototype.toLowerCase
RECURSIVE ToLowerCase(_)
ToLowerCase(s) ==
    IF Len(s) = 0 THEN "" ELSE LowerChar(Char(s, 1)) \o ToLowerCase(SubSeq(s, 2, Len(s)))

StartsWith(s, prefix) == Len(s) >= Len(prefix) /\ SubSeq(s, 1, Len(prefix)) = prefix

\* the position of the first occurrence of character c in s, 0 when there is none
FirstIndexOf(s, c) ==
    IF \E i \in 1..Len(s) : Char(s, i) = c
    THEN CHOOSE i \in 1..Len(s) : Char(s, i) = c /\ \A j \in 1..(i - 1) : Char(s, j) # c
    ELSE 0

\* String.prototype.split(c) for a one-character separator
RECURSIVE Split(_, _)
Split(s, c) ==
    LET i == FirstIndexOf(s, c)
    IN  IF i = 0 THEN <<s>>
        ELSE <<SubSeq(s, 1, i - 1)>> \o Split(SubSeq(s, i + 1, Len(s)), c)

IsDigit(c) == IndexIn(Digits, c) # 0

\* \d{1,3} matched against a whole string
IsDigits1to3(s) == Len(s) \in 1..3 /\ \A i \in 1..Len(s) : IsDigit(Char(s, i))

\* Number(s) for a string of decimal digits
RECURSIVE NumberOf(_)
NumberOf(s) ==
    IF Len(s) = 0 THEN 0
    ELSE 10 * NumberOf(SubSeq(s, 1, Len(s) - 1)) + (IndexIn(Digits, Char(s, Len(s))) - 1)

IsSpace(c) == c \in {" ", "\t", "\n", "\r"}

\* String.prototype.trim
RECURSIVE TrimStart(_)
TrimStart(s) ==
    IF Len(s) > 0 /\ IsSpace(Char(s, 1)) THEN TrimStart(SubSeq(s, 2, Len(s))) ELSE s

RECURSIVE TrimEnd(_)
TrimEnd(s) ==
    IF Len(s) > 0 /\ IsSpace(Char(s, Len(s))) THEN TrimEnd(SubSeq(s, 1, Len(s) - 1)) ELSE s

Trim(s) == TrimEnd(TrimStart(s))

----------------------------------------------------------------------------
(* new URL(urlString): the parse of the URL strings the model uses *)

NoUrl == [href |-> "", ok |-> FALSE, protocol |-> "", username |-> "", password |-> "",
          hostname |-> ""]

Url(href, protocol, username, password, hostname) ==
    [href |-> href, ok |-> TRUE, protocol |-> protocol, username |-> username,
     password |-> password, hostname |-> hostname]

\* the strings that parse, with the fields the URL parser gives them (a host of an
\* https URL comes out lowercased; the host of a non-special scheme is kept as written)
UrlTable == {
    Url("https://www.allrecipes.com/recipe/1", "https:", "", "", "www.allrecipes.com"),
    Url("https://allrecipes.com/x", "https:", "", "", "allrecipes.com"),
    Url("https://WWW.AllRecipes.com/x", "https:", "", "", "www.allrecipes.com"),
    Url("https://evil.allrecipes.com/x", "https:", "", "", "evil.allrecipes.com"),
    Url("https://notallrecipes.com/x", "https:", "", "", "notallrecipes.com"),
    Url("https://www.www.allrecipes.com/x", "https:", "", "", "www.www.allrecipes.com"),
    Url("https://randomblog.com/recipe", "https:", "", "", "randomblog.com"),
    Url("https://tasty.co/recipe/tea", "https:", "", "", "tasty.co"),
    Url("http://www.allrecipes.com/x", "http:", "", "", "www.allrecipes.com"),
    Url("http://example.com", "http:", "", "", "example.com"),
    Url("ftp://example.com", "ftp:", "", "", "example.com"),
    Url("foo://AllRecipes.com/x", "foo:", "", "", "AllRecipes.com"),
    Url("https://user:pw@www.allrecipes.com/x", "https:", "user", "pw", "www.allrecipes.com"),
    Url("https://user@www.allrecipes.com/x", "https:", "user", "", "www.allrecipes.com"),
    Url("https://localhost/x", "https:", "", "", "localhost"),
    Url("https://[::1]/x", "https:", "", "", "[::1]"),
    Url("https://metadata.google.internal/x", "https:", "", "", "metadata.google.internal"),
    Url("https://metadata.google.com/x", "https:", "", "", "metadata.google.com"),
    Url("https://0.0.0.0/x", "https:", "", "", "0.0.0.0"),
    Url("https://0.1.2.3/x", "https:", "", "", "0.1.2.3"),
    Url("https://10.0.0.1/x", "https:", "", "", "10.0.0.1"),
    Url("https://127.0.0.1/x", "https:", "", "", "127.0.0.1"),
    Url("https://169.254.169.254/x", "https:", "", "", "169.254.169.254"),
    Url("https://172.16.0.1/x", "https:", "", "", "172.16.0.1"),
    Url("https://172.31.255.255/x", "https:", "", "", "172.31.255.255"),
    Url("https://172.15.0.1/x", "https:", "", "", "172.15.0.1"),
    Url("https://172.32.0.1/x", "https:", "", "", "172.32.0.1"),
    Url("https://192.168.1.1/x", "https:", "", "", "192.168.1.1"),
    Url("https://192.169.1.1/x", "https:", "", "", "192.169.1.1"),
    Url("https://8.8.8.8/x", "https:", "", "", "8.8.8.8"),
    Url("https://100.10.0.1/x", "https:", "", "", "100.10.0.1"),
    Url("https://images.example.com/soup.jpg", "https:", "", "", "images.example.com"),
    Url("http://images.example.com/tea.png", "http:", "", "", "images.example.com"),
    Url("javascript:alert(1)", "javascript:", "", "", ""),
    Url("data:image/png;base64,AAAA", "data:", "", "", "")
  }

\* a decimal number as ToString writes it, at most 255
IsOctet(s) == IsDigits1to3(s) /\ ToString(NumberOf(s)) = s /\ NumberOf(s) <= 255

\* the parse of scheme://a.b.c.d/path for the schemes http, https and ftp, the host
\* four decimal numbers written without leading zeros: the URL parser accepts the
\* host as an IPv4 address when every number is at most 255 and fails otherwise
ParseQuadUrl(urlString) ==
    LET i      == FirstIndexOf(urlString, ":")
        scheme == SubSeq(urlString, 1, i - 1)
        rest   == SubSeq(urlString, i + 3, Len(urlString))
        j      == FirstIndexOf(rest, "/")
        host   == SubSeq(rest, 1, j - 1)
        parts  == Split(host, ".")
    IN  IF /\ i > 1
           /\ scheme \in {"http", "https", "ftp"}
           /\ SubSeq(urlString, i, i + 2) = "://"
           /\ j > 1
           /\ Len(parts) = 4
           /\ \A k \in 1..4 : IsOctet(parts[k])
        THEN Url(urlString, scheme \o ":", "", "", host)
        ELSE NoUrl

IsLetter(c) == IndexIn(UpperLetters, c) # 0 \/ IndexIn(LowerLetters, c) # 0

\* the parse of scheme://host/path for the schemes http, https and ftp, the host a
\* domain name of letters, digits, "-" and ".", its last label of letters only: the
\* URL parser lowercases the host
ParseDomainUrl(urlString) ==
    LET i      == FirstIndexOf(urlString, ":")
        scheme == SubSeq(urlString, 1, i - 1)
        rest   == SubSeq(urlString, i + 3, Len(urlString))
        j      == FirstIndexOf(rest, "/")
        host   == SubSeq(rest, 1, j - 1)
        labels == Split(host, ".")
    IN  IF /\ i > 1
           /\ scheme \in {"http", "https", "ftp"}
           /\ SubSeq(urlString, i, i + 2) = "://"
           /\ j > 1
           /\ \A k \in 1..Len(host) :
                 IsLetter(Char(host, k)) \/ IsDigit(Char(host, k)) \/ Char(host, k) \in {"-", "."}
           /\ \A k \in 1..Len(labels) : Len(labels[k]) > 0
           /\ \A k \in 1..Len(labels[Len(labels)]) : IsLetter(Char(labels[Len(labels)], k))
        THEN Url(urlString, scheme \o ":", "", "", ToLowerCase(host))
        ELSE NoUrl

\* new URL(urlString): NoUrl stands for the TypeError of a string that does not parse
ParseURL(urlString) ==
    IF \E u \in UrlTable : u.href = urlString
    THEN CHOOSE u \in UrlTable : u.href = urlString
    ELSE IF ParseQuadUrl(urlString).ok THEN ParseQuadUrl(urlString)
    ELSE ParseDomainUrl(urlString)

----------------------------------------------------------------------------
(* Domain allowlist and SSRF protection *)

ALLOWED_DOMAINS == {
    "recipetineats.com", "budgetbytes.com", "allrecipes.com", "foodnetwork.com",
    "simplyrecipes.com", "bonappetit.com", "seriouseats.com", "tasty.co", "delish.com",
    "epicurious.com", "cookieandkate.com", "minimalistbaker.com", "halfbakedharvest.com",
    "damndelicious.net", "pinchofyum.com", "smittenkitchen.com", "loveandlemons.com",
    "thepioneerwoman.com", "food52.com", "eatingwell.com", "skinnytaste.com",
    "hellofresh.com", "bbcgoodfood.com", "jamieoliver.com", "nigella.com",
    "themodernproper.com" }

\* hostname.replace(/^www\./, '')
StripWww(hostname) ==
    IF StartsWith(hostname, "www.") THEN SubSeq(hostname, 5, Len(hostname)) ELSE hostname

\* a plausible slip: a host that ends with "." and an allowlisted domain is accepted
isDomainAllowed_Subdomains(urlString) ==
    LET parsed   == ParseURL(urlString)
        hostname == ToLowerCase(parsed.hostname)
    IN  IF ~parsed.ok THEN FALSE
        ELSE \E d \in ALLOWED_DOMAINS :
               \/ hostname = d
               \/ /\ Len(hostname) > Len(d)
                  /\ SubSeq(hostname, Len(hostname) - Len(d), Len(hostname)) = "." \o d

isDomainAllowed(urlString) ==
    LET parsed == ParseURL(urlString)
    IN  IF ~parsed.ok THEN FALSE
        ELSE StripWww(ToLowerCase(parsed.hostname)) \in ALLOWED_DOMAINS

\* hostname.match(/^(\d{1,3})\.(\d{1,3})\.(\d{1,3})\.(\d{1,3})$/): the four groups,
\* <<>> when the hostname does not match
ipv4Match(hostname) ==
    LET parts == Split(hostname, ".")
    IN  IF Len(parts) = 4 /\ \A i \in 1..4 : IsDigits1to3(parts[i]) THEN parts ELSE <<>>

\* a plausible slip: the upper end of 172.16.0.0/12 is left out
isUrlSafe_Short172(urlString) ==
    LET parsed   == ParseURL(urlString)
        hostname == ToLowerCase(parsed.hostname)
        m        == ipv4Match(hostname)
        a        == NumberOf(m[1])
        b        == NumberOf(m[2])
    IN  IF ~parsed.ok THEN FALSE
        ELSE IF parsed.protocol # "https:" THEN FALSE
        ELSE IF parsed.username # "" \/ parsed.password # "" THEN FALSE
        ELSE IF hostname = "localhost" \/ hostname = "0.0.0.0" \/ hostname = "[::1]" THEN FALSE
        ELSE IF m # <<>> /\ (\/ a = 127
                             \/ a = 10
                             \/ (a = 172 /\ b >= 16 /\ b < 31)
                             \/ (a = 192 /\ b = 168)
                             \/ (a = 169 /\ b = 254)
                             \/ a = 0) THEN FALSE
        ELSE IF hostname = "metadata.google.internal" \/ hostname = "metadata.google.com"
             THEN FALSE
        ELSE TRUE

isUrlSafe(urlString) ==
    LET parsed   == ParseURL(urlString)
        hostname == ToLowerCase(parsed.hostname)
        m        == ipv4Match(hostname)
        a        == NumberOf(m[1])
        b        == NumberOf(m[2])
    IN  IF ~parsed.ok THEN FALSE
        ELSE IF parsed.protocol # "https:" THEN FALSE
        ELSE IF parsed.username # "" \/ parsed.password # "" THEN FALSE
        ELSE IF hostname = "localhost" \/ hostname = "0.0.0.0" \/ hostname = "[::1]" THEN FALSE
        ELSE IF m # <<>> /\ (\/ a = 127
                             \/ a = 10
                             \/ (a = 172 /\ b >= 16 /\ b <= 31)
                             \/ (a = 192 /\ b = 168)
                             \/ (a = 169 /\ b = 254)
                             \/ a = 0) THEN FALSE
        ELSE IF hostname = "metadata.google.internal" \/ hostname = "metadata.google.com"
             THEN FALSE
        ELSE TRUE

----------------------------------------------------------------------------
(* JavaScript values, as JSON.parse gives them and as the handler passes them on *)

JNull == [k |-> "null"]

JUndefined == [k |-> "undefined"]

JStr(str) == [k |-> "string", v |-> str]

JNum(n) == [k |-> "number", v |-> n]

JBool(b) == [k |-> "boolean", v |-> b]

JArr(items) == [k |-> "array", v |-> items]

\* an object: fields is a function from property names to values
JObj(fields) == [k |-> "object", v |-> fields]

\* ToBoolean(x)
Truthy(x) ==
    CASE x.k = "null" -> FALSE
      [] x.k = "undefined" -> FALSE
      [] x.k = "string" -> x.v # ""
      [] x.k = "number" -> x.v # 0
      [] x.k = "boolean" -> x.v
      [] OTHER -> TRUE

\* x[name] throws a TypeError
GetThrows(x) == x.k \in {"null", "undefined"}

\* x[name] for one of the property names the handler reads (x is not null or undefined)
Get(x, name) ==
    IF x.k = "object" /\ name \in DOMAIN x.v THEN x.v[name] ELSE JUndefined

\* typeof x === 'string'
IsString(x) == x.k = "string"

\* Array.isArray(x)
IsArray(x) == x.k = "array"

\* a || b
OrElse(a, b) == IF Truthy(a) THEN a ELSE b

----------------------------------------------------------------------------
(* Recipe extraction: the candidates of a page, the Recipe among them, its fields *)

\* the candidates: JSON.parse of every JSON-LD block, the malformed blocks skipped
ParsedCandidates(blocks) ==
    LET good == SelectSeq(blocks, LAMBDA b : ~b.malformed)
    IN  [i \in 1..Len(good) |-> good[i].value]

\* item['@type'] === 'Recipe'
IsRecipeItem(item) ==
    LET type == Get(item, "@type") IN IsString(type) /\ type.v = "Recipe"

\* a plausible slip: the last Recipe of the array is taken
FindInArray_Last(items) ==
    LET hits == {i \in 1..Len(items) : ~GetThrows(items[i]) /\ IsRecipeItem(items[i])}
        bad  == {i \in 1..Len(items) : GetThrows(items[i])}
        pick == CHOOSE i \in hits : \A j \in hits : i >= j
    IN  IF hits = {}
        THEN [err |-> bad # {}, value |-> JUndefined]
        ELSE [err |-> \E j \in bad : j < pick, value |-> items[pick]]

\* items.find(item => item['@type'] === 'Recipe'): err when an item before the first
\* Recipe is null, else the first Recipe item or undefined
FindInArray(items) ==
    LET hits  == {i \in 1..Len(items) : ~GetThrows(items[i]) /\ IsRecipeItem(items[i])}
        bad   == {i \in 1..Len(items) : GetThrows(items[i])}
        first == CHOOSE i \in hits : \A j \in hits : i <= j
    IN  IF hits = {}
        THEN [err |-> bad # {}, value |-> JUndefined]
        ELSE [err |-> \E j \in bad : j < first, value |-> items[first]]

\* the loop "for (const data of matches)" from candidate i on, recipe being the value
\* the variable holds so far
RECURSIVE FindRecipeFrom(_, _, _)
FindRecipeFrom(matches, i, recipe) ==
    IF i > Len(matches) THEN [err |-> FALSE, value |-> recipe]
    ELSE LET data == matches[i]
         IN  IF GetThrows(data) THEN [err |-> TRUE, value |-> recipe]
             ELSE IF IsRecipeItem(data) THEN [err |-> FALSE, value |-> data]
             ELSE LET inArr == IF IsArray(data) THEN FindInArray(data.v)
                               ELSE [err |-> FALSE, value |-> recipe]
                      graph == Get(data, "@graph")
                      inGraph == IF Truthy(graph) /\ IsArray(graph) THEN FindInArray(graph.v)
                                 ELSE [err |-> FALSE, value |-> inArr.value]
                  IN  IF inArr.err THEN inArr
                      ELSE IF IsArray(data) /\ Truthy(inArr.value) THEN inArr
                      ELSE IF inGraph.err THEN inGraph
                      ELSE IF Truthy(graph) /\ IsArray(graph) /\ Truthy(inGraph.value)
                           THEN inGraph
                      ELSE FindRecipeFrom(matches, i + 1, inGraph.value)

\* "Find Recipe object": err for a TypeError, else the Recipe or a falsy value
FindRecipe(matches) == FindRecipeFrom(matches, 1, JNull)

\* one element of recipeIngredient
IngredientOf(i) == IF IsString(i) THEN JStr(Trim(i.v)) ELSE JStr("")

\* one element of recipeInstructions (step is not null)
StepOf(step) ==
    IF IsString(step) THEN step
    ELSE IF Truthy(Get(step, "text")) THEN Get(step, "text")
    ELSE IF Truthy(Get(step, "name")) THEN Get(step, "name")
    ELSE JStr("")

MapSeq(Op(_), items) == [i \in 1..Len(items) |-> Op(items[i])]

\* "Parse instructions"
InstructionsOf(recipe) ==
    LET ri == Get(recipe, "recipeInstructions")
    IN  IF ~Truthy(ri) THEN [err |-> FALSE, value |-> JArr(<<>>)]
        ELSE IF IsArray(ri)
        THEN IF \E i \in 1..Len(ri.v) : GetThrows(ri.v[i])
             THEN [err |-> TRUE, value |-> JArr(<<>>)]
             ELSE [err |-> FALSE,
                   value |-> JArr(SelectSeq(MapSeq(StepOf, ri.v), Truthy))]
        ELSE IF IsString(ri) THEN [err |-> FALSE, value |-> JArr(<<ri>>)]
        ELSE [err |-> FALSE, value |-> JArr(<<>>)]

\* "Get image"
ImageOf(recipe) ==
    LET img == Get(recipe, "image")
    IN  IF ~Truthy(img) THEN JNull
        ELSE IF IsString(img) THEN img
        ELSE IF IsArray(img) THEN (IF Len(img.v) >= 1 THEN img.v[1] ELSE JUndefined)
        ELSE IF Truthy(Get(img, "url")) THEN Get(img, "url")
        ELSE JNull

\* "Validate image URL"
ValidateImage(image) ==
    IF Truthy(image) /\ IsString(image)
    THEN LET imgUrl == ParseURL(image.v)
         IN  IF ~imgUrl.ok THEN JNull
             ELSE IF imgUrl.protocol # "http:" /\ imgUrl.protocol # "https:" THEN JNull
             ELSE image
    ELSE image

\* "Extract fields" of the first handler: err for a TypeError, else the result object
ExtractFields(recipe) ==
    LET ing  == Get(recipe, "recipeIngredient")
        inst == InstructionsOf(recipe)
    IN  IF Truthy(ing) /\ ~IsArray(ing) THEN [err |-> TRUE, value |-> JNull]
        ELSE IF inst.err THEN [err |-> TRUE, value |-> JNull]
        ELSE [err |-> FALSE,
              value |->
                [name         |-> OrElse(Get(recipe, "name"), JStr("Untitled Recipe")),
                 description  |-> OrElse(Get(recipe, "description"), JStr("")),
                 ingredients  |-> IF Truthy(ing) THEN JArr(MapSeq(IngredientOf, ing.v))
                                  ELSE JArr(<<>>),
                 instructions |-> inst.value,
                 servings     |-> OrElse(Get(recipe, "recipeYield"), JNull),
                 prepTime     |-> OrElse(Get(recipe, "prepTime"), JNull),
                 cookTime     |-> OrElse(Get(recipe, "cookTime"), JNull),
                 image        |-> ValidateImage(ImageOf(recipe))]]

----------------------------------------------------------------------------
(* HTML sanitization: the four replacements of sanitizeText, character by character *)

\* \w
IsWordChar(c) ==
    IndexIn(LowerLetters, c) # 0 \/ IndexIn(UpperLetters, c) # 0 \/ IsDigit(c) \/ c = "_"

\* word occurs in s at position j
MatchesAt(s, j, word) ==
    j >= 1 /\ j + Len(word) - 1 <= Len(s) /\ SubSeq(s, j, j + Len(word) - 1) = word

\* the first position from j on that holds no white space (Len(s) + 1 at the end)
SkipSpaces(s, j) ==
    CHOOSE k \in j..(Len(s) + 1) :
        /\ \A m \in j..(k - 1) : IsSpace(Char(s, m))
        /\ k = Len(s) + 1 \/ ~IsSpace(Char(s, k))

\* the first position from j on that holds no word character
SkipWord(s, j) ==
    CHOOSE k \in j..(Len(s) + 1) :
        /\ \A m \in j..(k - 1) : IsWordChar(Char(s, m))
        /\ k = Len(s) + 1 \/ ~IsWordChar(Char(s, k))

\* the first position from j on that holds a character of the set stop (Len(s) + 1 if none)
SkipUntil(s, j, stop) ==
    CHOOSE k \in j..(Len(s) + 1) :
        /\ \A m \in j..(k - 1) : Char(s, m) \notin stop
        /\ k = Len(s) + 1 \/ Char(s, k) \in stop

\* the first position from j on where word occurs, 0 when it occurs nowhere
FindWord(s, j, word) ==
    IF \E k \in j..Len(s) : MatchesAt(s, k, word)
    THEN CHOOSE k \in j..Len(s) :
             MatchesAt(s, k, word) /\ \A m \in j..(k - 1) : ~MatchesAt(s, m, word)
    ELSE 0

\* the length of the one word of the set words that occurs in s at j, 0 when none does
WordAt(s, j, words) ==
    IF \E w \in words : MatchesAt(s, j, w)
    THEN Len(CHOOSE w \in words : MatchesAt(s, j, w))
    ELSE 0

DeniedTags == {"script", "iframe", "object", "embed", "form", "link", "style", "base",
               "meta", "svg"}

\* /<\s*\/?\s*(script|iframe|object|embed|form|link|style|base|meta|svg)\b[^>]*>/gi
\* tried at position i of the lowercased string: the end of the match, 0 for no match
DeniedTagEnd(ls, i) ==
    IF Char(ls, i) # "<" THEN 0
    ELSE LET a == SkipSpaces(ls, i + 1)
             b == IF MatchesAt(ls, a, "/") THEN SkipSpaces(ls, a + 1) ELSE a
             n == WordAt(ls, b, DeniedTags)
             e == SkipUntil(ls, b + n, {">"})
         IN  IF n = 0 THEN 0
             ELSE IF b + n <= Len(ls) /\ IsWordChar(Char(ls, b + n)) THEN 0
             ELSE IF e > Len(ls) THEN 0
             ELSE e

\* /\s+on\w+\s*=\s*(?:"[^"]*"|'[^']*'|[^\s>]*)/gi tried at position i
EventHandlerEnd(ls, i) ==
    IF ~IsSpace(Char(ls, i)) THEN 0
    ELSE LET a == SkipSpaces(ls, i)
             w == SkipWord(ls, a + 2)
             q == SkipSpaces(ls, w)
             v == SkipSpaces(ls, q + 1)
             dq == SkipUntil(ls, v + 1, {"\""})
             sq == SkipUntil(ls, v + 1, {"'"})
         IN  IF ~MatchesAt(ls, a, "on") THEN 0
             ELSE IF w = a + 2 THEN 0
             ELSE IF ~MatchesAt(ls, q, "=") THEN 0
             ELSE IF MatchesAt(ls, v, "\"") /\ dq <= Len(ls) THEN dq
             ELSE IF MatchesAt(ls, v, "'") /\ sq <= Len(ls) THEN sq
             ELSE SkipUntil(ls, v, {" ", "\t", "\n", "\r", ">"}) - 1

UrlAttributes == {"href", "src", "action"}

ScriptSchemes == {"javascript", "data", "vbscript"}

\* /(href|src|action)\s*=\s*["']?\s*(javascript|data|vbscript)\s*:/gi tried at position i
SchemeAttributeEnd(ls, i) ==
    LET n == WordAt(ls, i, UrlAttributes)
        q == SkipSpaces(ls, i + n)
        v == SkipSpaces(ls, q + 1)
        u == IF MatchesAt(ls, v, "\"") \/ MatchesAt(ls, v, "'")
             THEN SkipSpaces(ls, v + 1) ELSE v
        m == WordAt(ls, u, ScriptSchemes)
        c == SkipSpaces(ls, u + m)
    IN  IF n = 0 THEN 0
        ELSE IF ~MatchesAt(ls, q, "=") THEN 0
        ELSE IF m = 0 THEN 0
        ELSE IF ~MatchesAt(ls, c, ":") THEN 0
        ELSE c

\* /<script\b[^>]*>[\s\S]*?<\/script>/gi tried at position i
ScriptBlockEnd(ls, i) ==
    LET e == SkipUntil(ls, i + 7, {">"})
        c == FindWord(ls, e + 1, "</script>")
    IN  IF ~MatchesAt(ls, i, "<script") THEN 0
        ELSE IF i + 7 <= Len(ls) /\ IsWordChar(Char(ls, i + 7)) THEN 0
        ELSE IF e > Len(ls) THEN 0
        ELSE IF c = 0 THEN 0
        ELSE c + 8

\* str.replace(<denied tag>, '') from position i on
RECURSIVE RemoveDeniedTags(_, _, _)
RemoveDeniedTags(str, ls, i) ==
    IF i > Len(str) THEN ""
    ELSE LET e == DeniedTagEnd(ls, i)
         IN  IF e = 0 THEN Char(str, i) \o RemoveDeniedTags(str, ls, i + 1)
             ELSE RemoveDeniedTags(str, ls, e + 1)

\* str.replace(<event handler attribute>, '') from position i on
RECURSIVE RemoveEventHandlers(_, _, _)
RemoveEventHandlers(str, ls, i) ==
    IF i > Len(str) THEN ""
    ELSE LET e == EventHandlerEnd(ls, i)
         IN  IF e = 0 THEN Char(str, i) \o RemoveEventHandlers(str, ls, i + 1)
             ELSE RemoveEventHandlers(str, ls, e + 1)

\* str.replace(<attribute with a script scheme>, '$1="') from position i on
RECURSIVE NeutralizeSchemes(_, _, _)
NeutralizeSchemes(str, ls, i) ==
    IF i > Len(str) THEN ""
    ELSE LET e == SchemeAttributeEnd(ls, i)
             n == WordAt(ls, i, UrlAttributes)
         IN  IF e = 0 THEN Char(str, i) \o NeutralizeSchemes(str, ls, i + 1)
             ELSE SubSeq(str, i, i + n - 1) \o "=\"" \o NeutralizeSchemes(str, ls, e + 1)

\* str.replace(<script block>, '') from position i on
RECURSIVE RemoveScriptBlocks(_, _, _)
RemoveScriptBlocks(str, ls, i) ==
    IF i > Len(str) THEN ""
    ELSE LET e == ScriptBlockEnd(ls, i)
         IN  IF e = 0 THEN Char(str, i) \o RemoveScriptBlocks(str, ls, i + 1)
             ELSE RemoveScriptBlocks(str, ls, e + 1)

\* sanitizeText on the characters of a string
SanitizeString(str) ==
    LET s1 == RemoveDeniedTags(str, ToLowerCase(str), 1)
        s2 == RemoveEventHandlers(s1, ToLowerCase(s1), 1)
        s3 == NeutralizeSchemes(s2, ToLowerCase(s2), 1)
    IN  RemoveScriptBlocks(s3, ToLowerCase(s3), 1)

\* sanitizeText(str): a value that is no string is returned as it is
sanitizeText(x) == IF IsString(x) THEN JStr(SanitizeString(x.v)) ELSE x

\* sanitizeRecipe(recipe), on the result object of the handler
sanitizeRecipe(recipe) ==
    [recipe EXCEPT
        !.name = IF Truthy(@) THEN sanitizeText(@) ELSE @,
        !.description = IF Truthy(@) THEN sanitizeText(@) ELSE @,
        !.instructions = IF IsArray(@) THEN JArr(MapSeq(sanitizeText, @.v)) ELSE @,
        !.ingredients = IF IsArray(@) THEN JArr(MapSeq(sanitizeText, @.v)) ELSE @]

----------------------------------------------------------------------------
(* Observation of the rate limiter *)

\* the claim-side reading of "t is inside the trailing window that ends at time at"
WithinWindow(t, at) == at - t < RATE_LIMIT_WINDOW_MS

NoRlCall == [n |-> 0, ip |-> "", at |-> 0, before |-> <<>>, ret |-> TRUE, sinceAcc |-> -1]

\* calls: checkRateLimit calls so far; first: the time of the first; accepted: the
\* accepted calls of the trailing window; lastAcc: the time of the latest accepted call;
\* rejSince: rejected calls since then; passed: the requests of the trailing window that
\* the handler let past its rate-limit stage
NoRlHist == [calls |-> 0, first |-> -1, accepted |-> <<>>, lastAcc |-> -1, rejSince |-> 0,
             passed |-> <<>>]

HistOf(ip) == IF ip \in DOMAIN rlHist THEN rlHist[ip] ELSE NoRlHist

InWindow(ts, at) == SelectSeq(ts, LAMBDA x : WithinWindow(x, at))

\* the number of timestamps of ts inside the window that ends at time at
CountInWindow(ts, at) == Cardinality({i \in DOMAIN ts : WithinWindow(ts[i], at)})

\* checkRateLimit(ip) was called at the current time with result res; entered says
\* that a handler went on past its rate-limit stage
ObserveCheckRateLimit(ip, res, entered) ==
    LET h == HistOf(ip)
    IN  /\ rateLimitMap' = res.map
        /\ rlCall' = [n        |-> rlCall.n + 1,
                      ip       |-> ip,
                      at       |-> now,
                      before   |-> IF ip \in DOMAIN rateLimitMap THEN rateLimitMap[ip] ELSE <<>>,
                      ret      |-> res.ret,
                      sinceAcc |-> IF h.lastAcc < 0 THEN -1 ELSE now - h.lastAcc]
        /\ rlHist' = MapSet(rlHist, ip,
                      [calls    |-> h.calls + 1,
                       first    |-> IF h.first < 0 THEN now ELSE h.first,
                       accepted |-> IF res.ret THEN Append(InWindow(h.accepted, now), now)
                                    ELSE InWindow(h.accepted, now),
                       lastAcc  |-> IF res.ret THEN now ELSE h.lastAcc,
                       rejSince |-> IF res.ret THEN 0 ELSE h.rejSince + 1,
                       passed   |-> IF entered THEN Append(InWindow(h.passed, now), now)
                                    ELSE InWindow(h.passed, now)])

\* one call of checkRateLimit(ip) at the current time, with what is observed of it
CallCheckRateLimit(ip) ==
    ObserveCheckRateLimit(ip, checkRateLimit(rateLimitMap, ip, now), FALSE)

\* the clock advances by d milliseconds
Advance(d) ==
    /\ now' = now + d
    /\ rlHist' = [ip \in DOMAIN rlHist |->
                    [rlHist[ip] EXCEPT !.accepted = InWindow(@, now + d),
                                       !.passed = InWindow(@, now + d)]]

\* the clock may advance by one more tick
CanTick == (now % CACHE_TTL_MS) + TickMs <= MaxTicks * TickMs

\* the clock may jump ahead by the cache TTL
CanJump == (now \div CACHE_TTL_MS) < MaxHours

----------------------------------------------------------------------------
(* Observation of the cache *)

NoCacheOp == [n |-> 0, fn |-> "", url |-> "", at |-> 0, before |-> <<>>, ret |-> NULL,
              evicted |-> {}, oldest |-> ""]

\* of: the insertion number of each key present; count: insertions so far;
\* sets: setCache calls so far; seen: the URLs stored so far;
\* expired: entries removed on lookup so far
NoStamp == [of |-> EmptyMap, count |-> 0, sets |-> 0, seen |-> {}, expired |-> 0]

\* the earliest-inserted key among those present ("" when there is none)
EarliestInserted(st) ==
    IF DOMAIN st.of = {} THEN ""
    ELSE CHOOSE k \in DOMAIN st.of : \A j \in DOMAIN st.of : st.of[k] <= st.of[j]

\* the insertion record after "evict the earliest-inserted entry at capacity, then
\* insert or overwrite url"
StampAfterSet(st, url) ==
    LET s1 == IF Cardinality(DOMAIN st.of) >= CACHE_MAX_ENTRIES
              THEN MapDelete(st.of, EarliestInserted(st)) ELSE st.of
    IN  [of      |-> IF url \in DOMAIN s1 THEN s1 ELSE MapSet(s1, url, st.count + 1),
         count   |-> IF url \in DOMAIN s1 THEN st.count ELSE st.count + 1,
         sets    |-> st.sets + 1,
         seen    |-> st.seen \cup {url},
         expired |-> st.expired]

\* getCached(url) was called at the current time with result res
ObserveGetCached(url, res) ==
    LET gone == url \in KeysOf(recipeCache) /\ url \notin KeysOf(res.cache)
    IN  /\ recipeCache' = res.cache
        /\ cacheOp' = [n |-> cacheOp.n + 1, fn |-> "getCached", url |-> url, at |-> now,
                       before |-> recipeCache, ret |-> res.ret, evicted |-> {},
                       oldest |-> EarliestInserted(stamp)]
        /\ stamp' = IF gone
                    THEN [stamp EXCEPT !.of = MapDelete(@, url), !.expired = @ + 1]
                    ELSE stamp

\* one call of getCached(url) at the current time, with what is observed of it
CallGetCached(url) == ObserveGetCached(url, getCached(recipeCache, url, now))

\* one call of setCache(url, data) at the current time, with what is observed of it
CallSetCache(url, data) ==
    /\ recipeCache' = setCache(recipeCache, url, data, now)
    /\ cacheOp' = [n |-> cacheOp.n + 1, fn |-> "setCache", url |-> url, at |-> now,
                   before |-> recipeCache, ret |-> NULL,
                   evicted |-> KeysOf(recipeCache) \ KeysOf(setCacheEvict(recipeCache)),
                   oldest |-> EarliestInserted(stamp)]
    /\ stamp' = StampAfterSet(stamp, url)

----------------------------------------------------------------------------
(* The request handlers.  The file holds two handlers; both are modelled.  The   *)
(* synchronous part of a handler, up to its response or its fetch, is one step;  *)
(* the part after the fetch is a second step.                                    *)

\* the client identity: forwarded-for header, real-ip header, peer address, "unknown"
\* (an absent header or address is the empty string)
clientIpOf(conn) ==
    LET forwarded == IF conn.xff = "" THEN "" ELSE Trim(Split(conn.xff, ",")[1])
    IN  IF forwarded # "" THEN forwarded
        ELSE IF conn.realIp # "" THEN conn.realIp
        ELSE IF conn.remote # "" THEN conn.remote
        ELSE "unknown"

MsgNone == ""

MsgMethod == "Method not allowed"

MsgTooMany == "Too many requests. Please wait a minute before trying again."

MsgUrlRequired == "URL is required"

MsgInvalidUrl == "Invalid URL. Please use an https:// link."

MsgNotSupported ==
    "This recipe site is not supported yet. Try a major recipe site like RecipeTin Eats, BBC Good Food, or Allrecipes."

MsgFetch == "Could not fetch recipe page"

MsgTooLarge == "Page too large to process"

MsgNoRecipe == "No recipe found on this page"

MsgTimeout == "Recipe page took too long to respond"

MsgFailed == "Failed to process recipe"

\* the second handler appends the message of the error
MsgFailed2(message) == "Failed to process recipe: " \o message

\* stands for the engine's message of a TypeError raised while a page is processed
MsgTypeError == "TypeError"

\* what the synchronous part of a handler did: the responses sent and the last status,
\* whether it threw, the calls it made with their results, whether it started a fetch
SyncResult(map, cache) ==
    [status |-> 0, responses |-> 0, msg |-> MsgNone, crashed |-> FALSE,
     rlCalled |-> FALSE, rl |-> [ret |-> TRUE, map |-> map],
     gcCalled |-> FALSE, gc |-> [ret |-> NULL, cache |-> cache],
     checked |-> FALSE, fetch |-> FALSE, xcache |-> "", data |-> NULL]

Respond(r, status, msg) == [r EXCEPT !.status = status, !.msg = msg, !.responses = @ + 1]

\* a plausible slip: the URL is required before the rate limit is checked
handlerSync_UrlFirst(method, ip, body, map, cache, t) ==
    LET r0 == SyncResult(map, cache)
        r1 == [r0 EXCEPT !.rlCalled = TRUE, !.rl = checkRateLimit(map, ip, t)]
        r2 == [r1 EXCEPT !.checked = TRUE, !.gcCalled = TRUE,
                         !.gc = getCached(cache, body.url, t)]
    IN  IF method = "OPTIONS" THEN Respond(r0, 200, MsgNone)
        ELSE IF method # "POST" THEN Respond(r0, 405, MsgMethod)
        ELSE IF ~body.present THEN [r0 EXCEPT !.crashed = TRUE]
        ELSE IF body.url = "" THEN Respond(r0, 400, MsgUrlRequired)
        ELSE IF ~r1.rl.ret THEN Respond(r1, 429, MsgTooMany)
        ELSE IF ~isUrlSafe(body.url) THEN Respond(r1, 400, MsgInvalidUrl)
        ELSE IF ~isDomainAllowed(body.url) THEN Respond(r1, 400, MsgNotSupported)
        ELSE IF r2.gc.ret # NULL
             THEN [Respond(r2, 200, MsgNone) EXCEPT !.xcache = "HIT", !.data = r2.gc.ret]
        ELSE [r2 EXCEPT !.fetch = TRUE]

\* the first handler up to its fetch (body.present is false for a request without body,
\* body.url is the empty string for a body without url; what the cache returns is null
\* or a stored object)
handlerSync(method, ip, body, map, cache, t) ==
    LET r0 == SyncResult(map, cache)
        r1 == [r0 EXCEPT !.rlCalled = TRUE, !.rl = checkRateLimit(map, ip, t)]
        r2 == [r1 EXCEPT !.checked = TRUE, !.gcCalled = TRUE,
                         !.gc = getCached(cache, body.url, t)]
    IN  IF method = "OPTIONS" THEN Respond(r0, 200, MsgNone)
        ELSE IF method # "POST" THEN Respond(r0, 405, MsgMethod)
        ELSE IF ~r1.rl.ret THEN Respond(r1, 429, MsgTooMany)
        ELSE IF ~body.present THEN [r1 EXCEPT !.crashed = TRUE]
        ELSE IF body.url = "" THEN Respond(r1, 400, MsgUrlRequired)
        ELSE IF ~isUrlSafe(body.url) THEN Respond(r1, 400, MsgInvalidUrl)
        ELSE IF ~isDomainAllowed(body.url) THEN Respond(r1, 400, MsgNotSupported)
        ELSE IF r2.gc.ret # NULL
             THEN [Respond(r2, 200, MsgNone) EXCEPT !.xcache = "HIT", !.data = r2.gc.ret]
        ELSE [r2 EXCEPT !.fetch = TRUE]

\* the second handler up to its fetch
handler2Sync(method, body, map, cache) ==
    LET r0 == SyncResult(map, cache)
    IN  IF method = "OPTIONS" THEN Respond(r0, 200, MsgNone)
        ELSE IF method # "POST" THEN Respond(r0, 405, MsgMethod)
        ELSE IF ~body.present THEN [r0 EXCEPT !.crashed = TRUE]
        ELSE IF body.url = "" THEN Respond(r0, 400, MsgUrlRequired)
        ELSE [r0 EXCEPT !.fetch = TRUE]

\* a plausible slip: every error of the try block is answered 500
catchStatus_Always500(name) == [status |-> 500, msg |-> MsgFailed]

\* the catch block of the first handler
catchStatus(name) ==
    IF name = "TimeoutError" \/ name = "AbortError"
    THEN [status |-> 504, msg |-> MsgTimeout]
    ELSE [status |-> 500, msg |-> MsgFailed]

\* what the part of a handler after its fetch did
AsyncResult ==
    [status |-> 0, responses |-> 0, msg |-> MsgNone, store |-> FALSE, data |-> NULL,
     xcache |-> ""]

Caught(a, c) == [a EXCEPT !.status = c.status, !.msg = c.msg, !.responses = @ + 1]

\* a plausible slip: the answer "no recipe found" is cached like a result
handlerAsync_StoresNotFound(outcome) ==
    LET a0    == AsyncResult
        found == FindRecipe(ParsedCandidates(outcome.blocks))
        ex    == ExtractFields(found.value)
        data  == sanitizeRecipe(ex.value)
    IN  IF outcome.kind = "reject" THEN Caught(a0, catchStatus(outcome.name))
        ELSE IF ~outcome.ok THEN Respond(a0, 502, MsgFetch)
        ELSE IF outcome.kind = "textReject" THEN Caught(a0, catchStatus(outcome.name))
        ELSE IF outcome.length > MAX_HTML_LENGTH THEN Respond(a0, 502, MsgTooLarge)
        ELSE IF found.err THEN Caught(a0, catchStatus("TypeError"))
        ELSE IF ~Truthy(found.value)
             THEN [Respond(a0, 404, MsgNoRecipe) EXCEPT !.store = TRUE, !.data = NULL]
        ELSE IF ex.err THEN Caught(a0, catchStatus("TypeError"))
        ELSE [Respond(a0, 200, MsgNone) EXCEPT
                 !.store = TRUE, !.data = data, !.xcache = "MISS"]

\* the first handler from its fetch on, up to its call of setCache (store says that it
\* makes the call); outcome is what fetch and response.text() gave
handlerAsync(outcome) ==
    LET a0    == AsyncResult
        found == FindRecipe(ParsedCandidates(outcome.blocks))
        ex    == ExtractFields(found.value)
        data  == sanitizeRecipe(ex.value)
    IN  IF outcome.kind = "reject" THEN Caught(a0, catchStatus(outcome.name))
        ELSE IF ~outcome.ok THEN Respond(a0, 502, MsgFetch)
        ELSE IF outcome.kind = "textReject" THEN Caught(a0, catchStatus(outcome.name))
        ELSE IF outcome.length > MAX_HTML_LENGTH THEN Respond(a0, 502, MsgTooLarge)
        ELSE IF found.err THEN Caught(a0, catchStatus("TypeError"))
        ELSE IF ~Truthy(found.value) THEN Respond(a0, 404, MsgNoRecipe)
        ELSE IF ex.err THEN Caught(a0, catchStatus("TypeError"))
        ELSE [Respond(a0, 200, MsgNone) EXCEPT
                 !.store = TRUE, !.data = data, !.xcache = "MISS"]

\* "Extract fields" of the second handler: every ingredient is trimmed, the image is
\* not validated
ExtractFields2(recipe) ==
    LET ing  == Get(recipe, "recipeIngredient")
        inst == InstructionsOf(recipe)
    IN  IF Truthy(ing) /\ ~IsArray(ing) THEN [err |-> TRUE, value |-> JNull]
        ELSE IF Truthy(ing) /\ \E i \in 1..Len(ing.v) : ~IsString(ing.v[i])
             THEN [err |-> TRUE, value |-> JNull]
        ELSE IF inst.err THEN [err |-> TRUE, value |-> JNull]
        ELSE [err |-> FALSE,
              value |->
                [name         |-> OrElse(Get(recipe, "name"), JStr("Untitled Recipe")),
                 description  |-> OrElse(Get(recipe, "description"), JStr("")),
                 ingredients  |-> IF Truthy(ing) THEN JArr(MapSeq(IngredientOf, ing.v))
                                  ELSE JArr(<<>>),
                 instructions |-> inst.value,
                 servings     |-> OrElse(Get(recipe, "recipeYield"), JNull),
                 prepTime     |-> OrElse(Get(recipe, "prepTime"), JNull),
                 cookTime     |-> OrElse(Get(recipe, "cookTime"), JNull),
                 image        |-> ImageOf(recipe)]]

\* the second handler from its fetch on
handler2Async(outcome) ==
    LET a0    == AsyncResult
        found == FindRecipe(ParsedCandidates(outcome.blocks))
        ex    == ExtractFields2(found.value)
    IN  IF outcome.kind = "reject" THEN Respond(a0, 500, MsgFailed2(outcome.message))
        ELSE IF ~outcome.ok THEN Respond(a0, 502, MsgFetch)
        ELSE IF outcome.kind = "textReject" THEN Respond(a0, 500, MsgFailed2(outcome.message))
        ELSE IF found.err THEN Respond(a0, 500, MsgFailed2(MsgTypeError))
        ELSE IF ~Truthy(found.value) THEN Respond(a0, 404, MsgNoRecipe)
        ELSE IF ex.err THEN Respond(a0, 500, MsgFailed2(MsgTypeError))
        ELSE [Respond(a0, 200, MsgNone) EXCEPT !.data = ex.value]

----------------------------------------------------------------------------
(* Request contexts and the observation of a handler run *)

Slots == 1..MaxInflight

Idle == [pc |-> "idle", variant |-> 0, url |-> "", ip |-> "", checked |-> FALSE,
         pushed |-> 0, t0 |-> 0]

NoRequests == [i \in Slots |-> Idle]

\* what a fetch and the reading of its body gave: kind "reject" for a fetch that threw
\* (name and message are the error's), "textReject" for a response whose text() threw,
\* "response" for a body of the given length with the given JSON-LD blocks
NoOutcome == [kind |-> "none", name |-> "", message |-> "", ok |-> FALSE, length |-> 0,
              blocks |-> <<>>]

\* n: handler invocations since the initial state; stage: "sync" for a run that ended before its fetch,
\* "fetch" for one that ended after it; pushed: the timestamps the run added to its
\* client's window; outcome: what its fetch gave
NoRun == [n |-> 0, variant |-> 0, method |-> "", hasBody |-> FALSE, url |-> "", ip |-> "",
          stage |-> "", status |-> 0, responses |-> 0, msg |-> MsgNone, crashed |-> FALSE,
          checked |-> FALSE, fetched |-> FALSE, pushed |-> 0, xcache |-> "",
          outcome |-> NoOutcome, data |-> NULL]

\* the timestamps a checkRateLimit result res added to the window of ip
PushedBy(ip, res) ==
    CountInWindow(res.map[ip], now)
      - (IF ip \in DOMAIN rateLimitMap THEN CountInWindow(rateLimitMap[ip], now) ELSE 0)

\* an invocation of the first handler, up to its response or its fetch
handler(i, method, conn, body) ==
    /\ req[i].pc = "idle"
    /\ last.n < MaxRequests
    /\ \E ip \in {clientIpOf(conn)} :
       \E r \in {handlerSync(method, ip, body, rateLimitMap, recipeCache, now)} :
       \E pushed \in {IF r.rlCalled THEN PushedBy(ip, r.rl) ELSE 0} :
        /\ IF r.rlCalled THEN ObserveCheckRateLimit(ip, r.rl, r.status # 429)
           ELSE UNCHANGED rlVars
        /\ IF r.gcCalled THEN ObserveGetCached(body.url, r.gc) ELSE UNCHANGED cacheVars
        /\ req' = IF r.fetch
                  THEN [req EXCEPT ![i] = [pc |-> "fetching", variant |-> 1, url |-> body.url,
                                           ip |-> ip, checked |-> r.checked,
                                           pushed |-> pushed, t0 |-> now]]
                  ELSE req
        /\ last' = IF r.fetch THEN [last EXCEPT !.n = @ + 1]
                   ELSE [n |-> last.n + 1, variant |-> 1, method |-> method,
                         hasBody |-> body.present, url |-> body.url, ip |-> ip,
                         stage |-> "sync", status |-> r.status, responses |-> r.responses,
                         msg |-> r.msg, crashed |-> r.crashed, checked |-> r.checked,
                         fetched |-> FALSE, pushed |-> pushed, xcache |-> r.xcache,
                         outcome |-> NoOutcome, data |-> r.data]
        /\ UNCHANGED <<now, pure, unswept>>

\* an error of fetch or of response.text() that the timeout signal raises
IsTimeout(outcome) ==
    outcome.kind \in {"reject", "textReject"} /\ outcome.name \in {"TimeoutError", "AbortError"}

\* the first handler resumes after its fetch: the signal of AbortSignal.timeout ends the
\* fetch once FETCH_TIMEOUT_MS have passed, and not before
handlerResume(i, outcome) ==
    /\ req[i].pc = "fetching"
    /\ req[i].variant = 1
    /\ IF IsTimeout(outcome) THEN now - req[i].t0 >= FETCH_TIMEOUT_MS
       ELSE now - req[i].t0 <= FETCH_TIMEOUT_MS
    /\ \E a \in {handlerAsync(outcome)} :
        /\ IF a.store THEN CallSetCache(req[i].url, a.data) ELSE UNCHANGED cacheVars
        /\ req' = [req EXCEPT ![i] = Idle]
        /\ last' = [n |-> last.n, variant |-> 1, method |-> "POST", hasBody |-> TRUE,
                    url |-> req[i].url, ip |-> req[i].ip, stage |-> "fetch",
                    status |-> a.status, responses |-> a.responses, msg |-> a.msg,
                    crashed |-> FALSE, checked |-> req[i].checked, fetched |-> TRUE,
                    pushed |-> req[i].pushed, xcache |-> a.xcache, outcome |-> outcome,
                    data |-> a.data]
        /\ UNCHANGED <<now, pure, unswept, rlVars>>

\* an invocation of the second handler, up to its response or its fetch
handler2(i, method, conn, body) ==
    /\ req[i].pc = "idle"
    /\ last.n < MaxRequests
    /\ \E r \in {handler2Sync(method, body, rateLimitMap, recipeCache)} :
        /\ req' = IF r.fetch
                  THEN [req EXCEPT ![i] = [pc |-> "fetching", variant |-> 2, url |-> body.url,
                                           ip |-> clientIpOf(conn), checked |-> FALSE,
                                           pushed |-> 0, t0 |-> now]]
                  ELSE req
        /\ last' = IF r.fetch THEN [last EXCEPT !.n = @ + 1]
                   ELSE [n |-> last.n + 1, variant |-> 2, method |-> method,
                         hasBody |-> body.present, url |-> body.url, ip |-> clientIpOf(conn),
                         stage |-> "sync", status |-> r.status, responses |-> r.responses,
                         msg |-> r.msg, crashed |-> r.crashed, checked |-> FALSE,
                         fetched |-> FALSE, pushed |-> 0, xcache |-> "",
                         outcome |-> NoOutcome, data |-> NULL]
        /\ UNCHANGED <<now, pure, unswept, rlVars, cacheVars>>

\* fetch(url) of a string that is no http(s) URL rejects with a TypeError
FetchFits(url, outcome) ==
    \/ (ParseURL(url).ok /\ ParseURL(url).protocol \in {"http:", "https:"})
    \/ (outcome.kind = "reject" /\ outcome.name = "TypeError")

\* the second handler resumes after its fetch (it sets no timeout)
handler2Resume(i, outcome) ==
    /\ req[i].pc = "fetching"
    /\ req[i].variant = 2
    /\ FetchFits(req[i].url, outcome)
    /\ ~IsTimeout(outcome)
    /\ \E a \in {handler2Async(outcome)} :
        /\ req' = [req EXCEPT ![i] = Idle]
        /\ last' = [n |-> last.n, variant |-> 2, method |-> "POST", hasBody |-> TRUE,
                    url |-> req[i].url, ip |-> req[i].ip, stage |-> "fetch",
                    status |-> a.status, responses |-> a.responses, msg |-> a.msg,
                    crashed |-> FALSE, checked |-> FALSE, fetched |-> TRUE,
                    pushed |-> 0, xcache |-> "", outcome |-> outcome, data |-> a.data]
        /\ UNCHANGED <<now, pure, unswept, rlVars, cacheVars>>

\* one run of the setInterval callback (a run may fall at any moment between requests)
sweep ==
    /\ rateLimitMap' = sweepMap(rateLimitMap, now)
    /\ UNCHANGED <<now, pure, unswept, rlCall, rlHist, cacheVars, reqVars>>

Tick ==
    /\ CanTick
    /\ Advance(TickMs)
    /\ UNCHANGED <<pure, unswept, rateLimitMap, rlCall, cacheVars, reqVars>>

Jump ==
    /\ CanJump
    /\ Advance(CACHE_TTL_MS)
    /\ UNCHANGED <<pure, unswept, rateLimitMap, rlCall, cacheVars, reqVars>>

----------------------------------------------------------------------------
(* The rate limiter alone: calls of checkRateLimit, the sweep, the clock *)

RLClients == {"203.0.113.7", "unknown"}

InitCommon ==
    /\ now = 0
    /\ rateLimitMap = EmptyMap
    /\ rlCall = NoRlCall
    /\ rlHist = EmptyMap

RLInit ==
    /\ InitCommon
    /\ recipeCache = <<>>
    /\ cacheOp = NoCacheOp
    /\ stamp = NoStamp
    /\ req = NoRequests
    /\ last = NoRun
    /\ pure = NoPure
    /\ unswept = NoSweepRun

RLCall(ip) ==
    /\ rlCall.n < MaxCalls
    /\ CallCheckRateLimit(ip)
    /\ UNCHANGED <<now, pure, unswept, cacheVars, reqVars>>

RLNext ==
    \/ \E ip \in RLClients : RLCall(ip)
    \/ sweep
    \/ Tick

SpecRL == RLInit /\ [][RLNext]_vars

\* C2: a call of checkRateLimit returns false exactly when at least RATE_LIMIT_MAX of
\* the client's recorded timestamps are still inside the trailing window, and no client
\* ever has more than RATE_LIMIT_MAX accepted calls inside the trailing window.
C2_OverLimitIff ==
    /\ rlCall.n > 0 =>
         ((rlCall.ret = FALSE) <=> (CountInWindow(rlCall.before, rlCall.at) >= RATE_LIMIT_MAX))
    /\ \A ip \in DOMAIN rateLimitMap : CountInWindow(rateLimitMap[ip], now) <= RATE_LIMIT_MAX
    /\ \A ip \in DOMAIN rlHist : Len(rlHist[ip].accepted) <= RATE_LIMIT_MAX

\* a call made after the clock has advanced was rejected: RATE_LIMIT_MAX of the client's
\* recorded timestamps were inside the window
C2_Witness ==
    /\ rlCall.n > 0
    /\ rlCall.ret = FALSE
    /\ CountInWindow(rlCall.before, rlCall.at) = RATE_LIMIT_MAX
    /\ rlCall.at > 0

\* the observation of the latest call together with its client's history
LastHist == HistOf(rlCall.ip)

\* C3: for one client, calls number 1..RATE_LIMIT_MAX made within one window of the
\* first all return true, call number RATE_LIMIT_MAX + 1 within that window returns
\* false, and a call made once the window has passed since the latest accepted call
\* returns true, however many rejected calls came in between.
C3_TenThenRejectThenRecover ==
    rlCall.n > 0 =>
      /\ (LastHist.calls <= RATE_LIMIT_MAX /\ WithinWindow(LastHist.first, rlCall.at))
            => rlCall.ret = TRUE
      /\ (LastHist.calls = RATE_LIMIT_MAX + 1 /\ WithinWindow(LastHist.first, rlCall.at))
            => rlCall.ret = FALSE
      /\ (rlCall.sinceAcc >= 0 /\ ~WithinWindow(rlCall.at - rlCall.sinceAcc, rlCall.at))
            => rlCall.ret = TRUE

\* the twelfth call of a client: ten accepted, one rejected, then accepted again after
\* the window has passed
C3_Witness ==
    /\ rlCall.n > 0
    /\ LastHist.calls = RATE_LIMIT_MAX + 2
    /\ rlCall.sinceAcc >= RATE_LIMIT_WINDOW_MS
    /\ rlCall.ret = TRUE
    /\ Len(rlCall.before) >= RATE_LIMIT_MAX

----------------------------------------------------------------------------
(* The cache alone: calls of getCached and setCache, the clock *)

\* the i-th of the distinct URLs the cache is filled with
CacheKey(i) == "https://www.allrecipes.com/recipe/" \o ToString(i)

\* extracted recipes, as the handler stores them
TeaResult ==
    [name |-> JStr("Tea"), description |-> JStr(""),
     ingredients |-> JArr(<<JStr("Water"), JStr("Tea bag")>>),
     instructions |-> JArr(<<JStr("Boil water"), JStr("Steep tea")>>),
     servings |-> JNull, prepTime |-> JNull, cookTime |-> JNull, image |-> JNull]

SoupResult ==
    [name |-> JStr("Soup"), description |-> JStr("A soup"),
     ingredients |-> JArr(<<JStr("Water")>>), instructions |-> JArr(<<JStr("Boil")>>),
     servings |-> JStr("4"), prepTime |-> JStr("PT5M"), cookTime |-> JNull,
     image |-> JStr("https://images.example.com/soup.jpg")]

\* what setCache stores in the cache specification (the prefilled entries hold TeaResult)
CacheData == {SoupResult}

\* the cache after setCache of CacheKey(1) .. CacheKey(n), in this order, at time 0
Prefilled(n) == [i \in 1..n |-> [url |-> CacheKey(i), data |-> TeaResult, timestamp |-> 0]]

PrefilledStamp(n) ==
    [of |-> [k \in {CacheKey(i) : i \in 1..n} |-> CHOOSE i \in 1..n : CacheKey(i) = k],
     count |-> n, sets |-> n, seen |-> {CacheKey(i) : i \in 1..n}, expired |-> 0]

\* the fill levels the cache starts from: empty, one below capacity, at capacity
CachePrefills == {0, CACHE_MAX_ENTRIES - 1, CACHE_MAX_ENTRIES}

\* the URLs looked up and stored: the oldest key, the last key of a full cache, a new key
CacheUrls == {CacheKey(1), CacheKey(CACHE_MAX_ENTRIES), CacheKey(CACHE_MAX_ENTRIES + 1)}

CacheInit ==
    /\ InitCommon
    /\ \E n \in CachePrefills :
         /\ recipeCache = Prefilled(n)
         /\ stamp = PrefilledStamp(n)
    /\ cacheOp = NoCacheOp
    /\ req = NoRequests
    /\ last = NoRun
    /\ pure = NoPure
    /\ unswept = NoSweepRun

CacheGet(url) ==
    /\ cacheOp.n < MaxCacheOps
    /\ CallGetCached(url)
    /\ UNCHANGED <<now, pure, unswept, rlVars, reqVars>>

CacheSetOp(url, data) ==
    /\ cacheOp.n < MaxCacheOps
    /\ CallSetCache(url, data)
    /\ UNCHANGED <<now, pure, unswept, rlVars, reqVars>>

\* the clock advances by one tick, at most once between two jumps
CacheTick ==
    /\ now % CACHE_TTL_MS < TickMs
    /\ Tick

CacheNext ==
    \/ \E url \in CacheUrls : CacheGet(url)
    \/ \E url \in CacheUrls, data \in CacheData : CacheSetOp(url, data)
    \/ CacheTick
    \/ Jump

SpecCache == CacheInit /\ [][CacheNext]_vars

\* C5: the cache never holds more than CACHE_MAX_ENTRIES entries.
C5_CacheBounded == Len(recipeCache) <= CACHE_MAX_ENTRIES

\* setCache has overwritten a key that was present in a full cache
C5_Witness ==
    /\ cacheOp.fn = "setCache"
    /\ Len(cacheOp.before) = CACHE_MAX_ENTRIES
    /\ cacheOp.url \in KeysOf(cacheOp.before)
    /\ cacheOp.url \in KeysOf(recipeCache)

\* the entry of url in cache (url is a key of cache)
EntryOf(cache, url) == CHOOSE e \in Range(cache) : e.url = url

\* no entry of the cache is older than the TTL
NoneExpired == \A e \in Range(recipeCache) : now - e.timestamp <= CACHE_TTL_MS

\* C6: setCache on a cache of CACHE_MAX_ENTRIES entries evicts exactly one entry, the
\* earliest-inserted one still present, and leaves every other entry but the one it
\* writes as it was; the keys present are always those the insertion-order rule keeps;
\* after CACHE_MAX_ENTRIES + 1 insertions of distinct URLs the first-inserted URL is
\* absent on lookup and the other CACHE_MAX_ENTRIES are present.
C6_EvictsEarliestInserted ==
    /\ KeysOf(recipeCache) = DOMAIN stamp.of
    /\ (cacheOp.fn = "setCache" /\ Len(cacheOp.before) = CACHE_MAX_ENTRIES) =>
         /\ cacheOp.evicted = {cacheOp.oldest}
         /\ KeysOf(recipeCache) = (KeysOf(cacheOp.before) \ {cacheOp.oldest}) \cup {cacheOp.url}
         /\ \A e \in Range(cacheOp.before) :
              e.url \notin {cacheOp.oldest, cacheOp.url} => e \in Range(recipeCache)
    /\ (/\ stamp.sets = CACHE_MAX_ENTRIES + 1
        /\ Cardinality(stamp.seen) = CACHE_MAX_ENTRIES + 1
        /\ stamp.expired = 0
        /\ NoneExpired) =>
         /\ getCached(recipeCache, CacheKey(1), now).ret = NULL
         /\ Cardinality(KeysOf(recipeCache)) = CACHE_MAX_ENTRIES
         /\ \A k \in DOMAIN stamp.of :
              /\ stamp.of[k] \in 2..(CACHE_MAX_ENTRIES + 1)
              /\ getCached(recipeCache, k, now).ret # NULL

\* a new URL has been stored in a full cache, as insertion number CACHE_MAX_ENTRIES + 1,
\* after an earlier lookup
C6_Witness ==
    /\ cacheOp.fn = "setCache"
    /\ Len(cacheOp.before) = CACHE_MAX_ENTRIES
    /\ cacheOp.url \notin KeysOf(cacheOp.before)
    /\ cacheOp.evicted = {CacheKey(1)}
    /\ stamp.sets = CACHE_MAX_ENTRIES + 1
    /\ Cardinality(stamp.seen) = CACHE_MAX_ENTRIES + 1
    /\ stamp.expired = 0
    /\ NoneExpired
    /\ cacheOp.n >= 2

\* C7: getCached returns null for an absent key; for a present key whose entry is older
\* than CACHE_TTL_MS it removes that entry and returns null; otherwise it returns the
\* stored value and leaves the cache unchanged.
C7_GetCached ==
    cacheOp.fn = "getCached" =>
      IF cacheOp.url \notin KeysOf(cacheOp.before)
      THEN cacheOp.ret = NULL /\ recipeCache = cacheOp.before
      ELSE LET e == EntryOf(cacheOp.before, cacheOp.url)
           IN  IF cacheOp.at - e.timestamp > CACHE_TTL_MS
               THEN /\ cacheOp.ret = NULL
                    /\ recipeCache = SelectSeq(cacheOp.before, LAMBDA x : x # e)
               ELSE /\ cacheOp.ret = e.data
                    /\ recipeCache = cacheOp.before

\* a lookup removed an expired entry
C7_WitnessExpired ==
    /\ cacheOp.fn = "getCached"
    /\ cacheOp.url \in KeysOf(cacheOp.before)
    /\ cacheOp.at - EntryOf(cacheOp.before, cacheOp.url).timestamp > CACHE_TTL_MS
    /\ cacheOp.ret = NULL
    /\ cacheOp.url \notin KeysOf(recipeCache)

----------------------------------------------------------------------------
(* The handlers under concurrent requests *)

ClientA == "203.0.113.7"

\* the request headers and peer address of a connection
Conns ==
    { [xff |-> "203.0.113.7, 10.0.0.1", realIp |-> "198.51.100.9", remote |-> "10.0.0.2"],
      [xff |-> "", realIp |-> "", remote |-> ""] }

Methods == {"OPTIONS", "GET", "POST"}

NoBody == [present |-> FALSE, url |-> ""]

Body(url) == [present |-> TRUE, url |-> url]

AllowedUrl == "https://www.allrecipes.com/recipe/1"

DisallowedUrl == "https://randomblog.com/recipe"

UnsafeUrl == "http://www.allrecipes.com/x"

Bodies == {NoBody, Body(""), Body(AllowedUrl), Body(DisallowedUrl), Body(UnsafeUrl)}

\* a Recipe object in JSON-LD
SoupRecipe ==
    JObj(("@type" :> JStr("Recipe")) @@
         [name |-> JStr("Soup"), description |-> JStr("A soup"),
          recipeIngredient |-> JArr(<<JStr(" Water ")>>),
          recipeInstructions |-> JArr(<<JStr("Boil")>>),
          recipeYield |-> JStr("4"), prepTime |-> JStr("PT5M"),
          image |-> JStr("https://images.example.com/soup.jpg")])

Block(value) == [malformed |-> FALSE, value |-> value]

Rejected(name) ==
    [kind |-> "reject", name |-> name, message |-> "fetch failed", ok |-> FALSE,
     length |-> 0, blocks |-> <<>>]

TextRejected(name) ==
    [kind |-> "textReject", name |-> name, message |-> "terminated", ok |-> TRUE,
     length |-> 0, blocks |-> <<>>]

Response(ok, length, blocks) ==
    [kind |-> "response", name |-> "", message |-> "", ok |-> ok, length |-> length,
     blocks |-> blocks]

Outcomes ==
    { Rejected("TimeoutError"), Rejected("TypeError"), TextRejected("AbortError"),
      Response(FALSE, 9, <<>>),
      Response(TRUE, MAX_HTML_LENGTH + 1, <<Block(SoupRecipe)>>),
      Response(TRUE, 300, <<>>),
      Response(TRUE, 300, <<Block(JNull)>>),
      Response(TRUE, MAX_HTML_LENGTH, <<Block(SoupRecipe)>>) }

\* the rate limiter after n accepted requests of ClientA at time 0
Accepted(n) == [i \in 1..n |-> 0]

PriorRequests == {0, RATE_LIMIT_MAX - 1}

Init ==
    /\ now = 0
    /\ \E n \in PriorRequests :
         /\ rateLimitMap = IF n = 0 THEN EmptyMap ELSE MapSet(EmptyMap, ClientA, Accepted(n))
         /\ rlHist = IF n = 0 THEN EmptyMap
                     ELSE MapSet(EmptyMap, ClientA,
                                 [calls |-> n, first |-> 0, accepted |-> Accepted(n),
                                  lastAcc |-> 0, rejSince |-> 0, passed |-> Accepted(n)])
         /\ rlCall = IF n = 0 THEN NoRlCall
                     ELSE [n |-> n, ip |-> ClientA, at |-> 0, before |-> Accepted(n - 1),
                           ret |-> TRUE, sinceAcc |-> IF n = 1 THEN -1 ELSE 0]
    /\ recipeCache = <<>>
    /\ cacheOp = NoCacheOp
    /\ stamp = NoStamp
    /\ req = NoRequests
    /\ last = NoRun
    /\ pure = NoPure
    /\ unswept = NoSweepRun

\* what the concurrent requests send and what their fetches give
ConcurrentBodies == {Body(""), Body(AllowedUrl)}

ConcurrentOutcomes == {Rejected("TypeError"), Response(TRUE, 300, <<>>)}

Next ==
    \/ \E i \in Slots, conn \in Conns, body \in ConcurrentBodies :
         handler(i, "POST", conn, body)
    \/ \E i \in Slots, outcome \in ConcurrentOutcomes : handlerResume(i, outcome)
    \/ sweep
    \/ Tick

Spec == Init /\ [][Next]_vars

\* C4: under every interleaving of concurrent requests of one client, each suspended
\* only at its fetch, and of the sweep, at most RATE_LIMIT_MAX requests of the client
\* get past the rate-limit stage within one window of RATE_LIMIT_WINDOW_MS.
C4_AtMostTenAccepted ==
    \A ip \in DOMAIN rlHist : Len(rlHist[ip].passed) <= RATE_LIMIT_MAX

\* ten requests of the client have passed within the window, one of them is still at
\* its fetch, and a further request of the client was turned away
C4_Witness ==
    /\ Len(HistOf(ClientA).passed) = RATE_LIMIT_MAX
    /\ \E i \in Slots : req[i].pc = "fetching" /\ req[i].ip = ClientA
    /\ rlCall.ip = ClientA
    /\ ~rlCall.ret
    /\ last.status = 429

----------------------------------------------------------------------------
(* Each handler alone, one request at a time (a deployed module exports one handler) *)

ReqNext ==
    \/ \E method \in Methods, conn \in Conns, body \in Bodies : handler(1, method, conn, body)
    \/ \E outcome \in Outcomes : handlerResume(1, outcome)
    \/ sweep
    \/ Tick

SpecReq == Init /\ [][ReqNext]_vars

Req2Next ==
    \/ \E method \in Methods, conn \in Conns, body \in Bodies : handler2(1, method, conn, body)
    \/ \E outcome \in Outcomes : handler2Resume(1, outcome)
    \/ sweep
    \/ Tick

SpecReq2 == Init /\ [][Req2Next]_vars

\* C1: no fetch of the request URL is started unless isUrlSafe and isDomainAllowed were
\* both evaluated on it and both returned true, and a POST whose URL is on a disallowed
\* domain ends with status 400 and without a fetch.
C1_FetchOnlyAfterChecks ==
    /\ \A i \in Slots :
         req[i].pc = "fetching" =>
           req[i].checked /\ isUrlSafe(req[i].url) /\ isDomainAllowed(req[i].url)
    /\ (last.stage # "" /\ last.method = "POST" /\ last.hasBody /\ last.url # ""
          /\ ~isDomainAllowed(last.url) /\ last.status # 429)
       => (last.status = 400 /\ ~last.fetched)

\* C8: every invocation of the first handler, for every method, every body (an absent
\* body included) and every fetch outcome, ends with exactly one response.
C8_ExactlyOneResponse ==
    (last.stage # "" /\ last.variant = 1) => last.responses = 1

\* C9: a POST that the first handler rejects before its fetch with status 400 has added
\* exactly one timestamp to its client's rate-limit window.
C9_RejectedConsumesSlot ==
    (last.variant = 1 /\ last.stage = "sync" /\ last.method = "POST" /\ last.status = 400)
      => last.pushed = 1

\* a request rejected with status 400 has taken the tenth slot of its client's window
C9_Witness ==
    /\ last.variant = 1
    /\ last.stage = "sync"
    /\ last.status = 400
    /\ last.msg = MsgNotSupported
    /\ last.ip = ClientA
    /\ rlCall.n = RATE_LIMIT_MAX
    /\ CountInWindow(rateLimitMap[ClientA], now) = RATE_LIMIT_MAX

\* a page whose processing throws
ProcessingThrows(outcome) ==
    LET found == FindRecipe(ParsedCandidates(outcome.blocks))
    IN  found.err \/ (Truthy(found.value) /\ ExtractFields(found.value).err)

\* the status of the first failing stage
StageStatus(outcome) ==
    IF outcome.kind = "reject" THEN (IF IsTimeout(outcome) THEN 504 ELSE 500)
    ELSE IF ~outcome.ok THEN 502
    ELSE IF outcome.kind = "textReject" THEN (IF IsTimeout(outcome) THEN 504 ELSE 500)
    ELSE IF outcome.length > MAX_HTML_LENGTH THEN 502
    ELSE IF ProcessingThrows(outcome) THEN 500
    ELSE IF ~Truthy(FindRecipe(ParsedCandidates(outcome.blocks)).value) THEN 404
    ELSE 200

\* C10: a request of the first handler that reached its fetch ends with the status of
\* the first failing stage: 502 for a non-OK response, 504 for a timeout or abort, 500
\* for another fetch or processing exception, 502 for a body over MAX_HTML_LENGTH, 404
\* when no Recipe is found, else 200.
C10_FetchStageStatus ==
    (last.variant = 1 /\ last.stage = "fetch") =>
      /\ last.status = StageStatus(last.outcome)
      /\ last.status \in {200, 404, 500, 502, 504}

\* a fetch ended by the timeout signal was answered 504
C10_Witness ==
    /\ last.variant = 1
    /\ last.stage = "fetch"
    /\ IsTimeout(last.outcome)
    /\ last.status = 504

----------------------------------------------------------------------------
(* The functions of the file applied on their own *)

progVars == <<now, rlVars, cacheVars, reqVars, unswept>>

\* the module after load: nothing cached, no client recorded, no request
LoadInit ==
    /\ InitCommon
    /\ recipeCache = <<>>
    /\ cacheOp = NoCacheOp
    /\ stamp = NoStamp
    /\ req = NoRequests
    /\ last = NoRun
    /\ unswept = NoSweepRun

\* the function named fn is to be applied to one of args
PureInit(args) == LoadInit /\ \E x \in args : pure = [fn |-> "", arg |-> x, out |-> NULL]

\* the function named fn has been applied and has given out
Applied(fn, out) ==
    /\ pure.fn = ""
    /\ pure' = [pure EXCEPT !.fn = fn, !.out = out]
    /\ UNCHANGED progVars

----------------------------------------------------------------------------
(* isUrlSafe on its own *)

Octets == 0..255

\* scheme://a.b.c.d/x
QuadHref(scheme, quad) ==
    scheme \o "://" \o ToString(quad[1]) \o "." \o ToString(quad[2]) \o "."
      \o ToString(quad[3]) \o "." \o ToString(quad[4]) \o "/x"

\* a URL with its scheme and, for a dotted-quad host, the four numbers
QuadUrl(scheme, quad) == [href |-> QuadHref(scheme, quad), scheme |-> scheme, quad |-> quad]

NamedUrl(href, scheme) == [href |-> href, scheme |-> scheme, quad |-> <<>>]

\* every first and second number with https, the ends of each range with http and ftp,
\* and URLs of other schemes and of named hosts
UrlSafeArgs ==
    { QuadUrl("https", <<a, b, 0, 1>>) : a \in Octets, b \in Octets }
      \cup { QuadUrl("https", <<a, b, 255, 254>>) :
               a \in {0, 10, 127, 169, 172, 192, 8, 255}, b \in {0, 16, 31, 168, 254, 255} }
      \cup { QuadUrl(s, <<a, b, 0, 1>>) :
               s \in {"http", "ftp"}, a \in {0, 8, 10, 127, 172}, b \in {0, 16} }
      \cup { NamedUrl("http://example.com", "http"), NamedUrl("ftp://example.com", "ftp"),
             NamedUrl("http://www.allrecipes.com/x", "http"),
             NamedUrl("foo://AllRecipes.com/x", "foo"),
             NamedUrl("javascript:alert(1)", "javascript"),
             NamedUrl("data:image/png;base64,AAAA", "data"),
             NamedUrl("https://www.allrecipes.com/recipe/1", "https") }

UrlSafeInit == PureInit(UrlSafeArgs)

UrlSafeApply == Applied("isUrlSafe", isUrlSafe(pure.arg.href))

SpecUrlSafe == UrlSafeInit /\ [][UrlSafeApply]_vars

\* a.b.c.d lies in 10/8, 172.16/12, 192.168/16, 169.254/16, 127/8 or 0/8
InPrivateRange(quad) ==
    \/ quad[1] = 10
    \/ (quad[1] = 172 /\ quad[2] \div 16 = 1)
    \/ (quad[1] = 192 /\ quad[2] = 168)
    \/ (quad[1] = 169 /\ quad[2] = 254)
    \/ quad[1] = 127
    \/ quad[1] = 0

\* C11: isUrlSafe returns false for every URL whose scheme is not https and for every
\* https URL whose host is a dotted quad in 10/8, 172.16/12, 192.168/16, 169.254/16,
\* 127/8 or 0/8, and true for every credential-free https URL whose host is a dotted
\* quad outside these ranges.
C11_UrlSafe ==
    pure.fn = "isUrlSafe" =>
      /\ pure.arg.scheme # "https" => pure.out = FALSE
      /\ (pure.arg.scheme = "https" /\ pure.arg.quad # <<>>) =>
            (pure.out = ~InPrivateRange(pure.arg.quad))

\* isUrlSafe has turned down https://172.31.0.1/x, the upper end of 172.16/12
C11_Witness ==
    /\ pure.fn = "isUrlSafe"
    /\ pure.arg.href = "https://172.31.0.1/x"
    /\ pure.out = FALSE

----------------------------------------------------------------------------
(* isDomainAllowed on its own *)

\* String.prototype.toUpperCase
RECURSIVE ToUpperCase(_)
ToUpperCase(s) ==
    IF Len(s) = 0 THEN ""
    ELSE (IF IndexIn(LowerLetters, Char(s, 1)) # 0
          THEN Char(UpperLetters, IndexIn(LowerLetters, Char(s, 1))) ELSE Char(s, 1))
         \o ToUpperCase(SubSeq(s, 2, Len(s)))

\* the ways a URL is built from an allowlisted domain; those of ExactForms name the
\* domain itself, bare or with one leading "www."
ExactForms == {"bare", "www", "upper", "wwwUpper", "http"}

DomainForms ==
    ExactForms \cup {"subdomain", "suffix", "prefix", "wwwTwice", "wwwInside", "noScheme"}

HrefOfForm(form, d) ==
    CASE form = "bare"      -> "https://" \o d \o "/x"
      [] form = "www"       -> "https://www." \o d \o "/x"
      [] form = "upper"     -> "https://" \o ToUpperCase(d) \o "/x"
      [] form = "wwwUpper"  -> "https://WWW." \o ToUpperCase(d) \o "/x"
      [] form = "http"      -> "http://www." \o d \o "/x"
      [] form = "subdomain" -> "https://evil." \o d \o "/x"
      [] form = "suffix"    -> "https://not" \o d \o "/x"
      [] form = "prefix"    -> "https://" \o d \o ".evil.net/x"
      [] form = "wwwTwice"  -> "https://www.www." \o d \o "/x"
      [] form = "wwwInside" -> "https://evil.www." \o d \o "/x"
      [] form = "noScheme"  -> "www." \o d

DomainArgs ==
    { [href |-> HrefOfForm(form, d), form |-> form] : form \in DomainForms, d \in ALLOWED_DOMAINS }
      \cup { [href |-> "https://randomblog.com/recipe", form |-> "other"],
             [href |-> "https://10.0.0.1/x", form |-> "other"],
             [href |-> "foo://AllRecipes.com/x", form |-> "upper"],
             [href |-> "https://user:pw@www.allrecipes.com/x", form |-> "www"] }

DomainInit == PureInit(DomainArgs)

DomainApply == Applied("isDomainAllowed", isDomainAllowed(pure.arg.href))

SpecDomain == DomainInit /\ [][DomainApply]_vars

\* C12: isDomainAllowed returns true exactly for the URLs that parse and whose hostname,
\* lowercased and with one leading "www." removed, is a member of the allowlist: the
\* bare and the www-prefixed form of an allowlisted domain are accepted, a subdomain of
\* one and a host that merely ends with one are rejected.
C12_DomainAllowed ==
    pure.fn = "isDomainAllowed" =>
      /\ pure.out = (pure.arg.form \in ExactForms)
      /\ pure.out = (/\ ParseURL(pure.arg.href).ok
                     /\ StripWww(ToLowerCase(ParseURL(pure.arg.href).hostname))
                          \in ALLOWED_DOMAINS)

\* isDomainAllowed has turned down a subdomain of an allowlisted domain
C12_Witness ==
    /\ pure.fn = "isDomainAllowed"
    /\ pure.arg.href = "https://evil.allrecipes.com/x"
    /\ pure.out = FALSE

----------------------------------------------------------------------------
(* "Find Recipe object" on its own *)

Typed(type, name) == JObj(("@type" :> JStr(type)) @@ [name |-> JStr(name)])

RecipeA == Typed("Recipe", "A")

RecipeB == Typed("Recipe", "B")

Article == Typed("Article", "News")

Graph(items) == JObj(("@context" :> JStr("https://schema.org")) @@ ("@graph" :> items))

\* candidates none of which is null and none of which holds a null element
SoundCandidates ==
    { RecipeA, RecipeB, Article,
      JArr(<<Article, RecipeA, RecipeB>>), JArr(<<Article, JStr("x"), JNum(5)>>), JArr(<<>>),
      Graph(JArr(<<Article, RecipeB, RecipeA>>)), Graph(JArr(<<Article>>)), Graph(JStr("x")),
      JObj(("@type" :> JArr(<<JStr("Recipe")>>)) @@ [name |-> JStr("C")]),
      JStr("Recipe"), JNum(7), JBool(TRUE) }

RECURSIVE SeqsUpTo(_, _)
\* the sequences of at most n elements of S
SeqsUpTo(S, n) ==
    IF n = 0 THEN {<<>>}
    ELSE SeqsUpTo(S, n - 1) \cup {Append(q, x) : q \in SeqsUpTo(S, n - 1), x \in S}

FindArgs == SeqsUpTo(SoundCandidates, MaxCandidates)

FindInit == PureInit(FindArgs)

FindApply == Applied("FindRecipe", FindRecipe(pure.arg))

SpecFind == FindInit /\ [][FindApply]_vars

NoItem == [k |-> "none"]

\* the first element of items with @type "Recipe", NoItem when there is none
FirstRecipeIn(items) ==
    LET hits == {i \in 1..Len(items) : IsRecipeItem(items[i])}
    IN  IF hits = {} THEN NoItem ELSE items[CHOOSE i \in hits : \A j \in hits : i <= j]

\* the Recipe one candidate resolves to: itself, else the first Recipe of the array it
\* is, else the first Recipe of its @graph array; NoItem when it resolves to none
ResolvedBy(c) ==
    IF IsRecipeItem(c) THEN c
    ELSE IF IsArray(c) /\ FirstRecipeIn(c.v) # NoItem THEN FirstRecipeIn(c.v)
    ELSE IF IsArray(Get(c, "@graph")) THEN FirstRecipeIn(Get(c, "@graph").v)
    ELSE NoItem

\* the resolution of the first candidate, in document order, that resolves to a Recipe
Resolved(cands) ==
    LET hits == {i \in 1..Len(cands) : ResolvedBy(cands[i]) # NoItem}
    IN  IF hits = {} THEN NoItem
        ELSE ResolvedBy(cands[CHOOSE i \in hits : \A j \in hits : i <= j])

\* C13: the Recipe found is the one of the first candidate, in document order, that is
\* itself a Recipe, or is an array holding one (then its first), or has an @graph array
\* holding one (then its first); later candidates are not consulted, and when no
\* candidate resolves nothing is found.
C13_FirstMatchWins ==
    pure.fn = "FindRecipe" =>
      /\ ~pure.out.err
      /\ IF Resolved(pure.arg) = NoItem THEN ~Truthy(pure.out.value)
         ELSE pure.out.value = Resolved(pure.arg)

\* an @graph array with a non-Recipe item followed by two Recipe items, in a page whose
\* later candidate is a Recipe too, has resolved to the first Recipe item of the @graph
C13_Witness ==
    /\ pure.fn = "FindRecipe"
    /\ pure.arg = <<Graph(JArr(<<Article, RecipeB, RecipeA>>)), RecipeA>>
    /\ pure.out.value = RecipeB

----------------------------------------------------------------------------
(* The first handler from a fetched page on, on its own *)

Malformed == [malformed |-> TRUE, value |-> JNull]

\* the JSON-LD blocks of a page: text that does not parse, sound candidates, the value
\* null, and arrays that hold null
PageBlocks ==
    { Malformed, Block(RecipeA), Block(Article), Block(JArr(<<Article, RecipeB>>)),
      Block(Graph(JArr(<<Article, RecipeB>>))), Block(JNum(7)), Block(JStr("Recipe")),
      Block(JNull), Block(JArr(<<JNull, RecipeA>>)), Block(Graph(JArr(<<JNull>>))) }

Pictured(image) ==
    JObj(("@type" :> JStr("Recipe")) @@ [name |-> JStr("Soup"), image |-> image])

ImageObject(url) == JObj(("@type" :> JStr("ImageObject")) @@ [url |-> url])

\* the image values of a Recipe: strings, arrays and objects
ImageValues ==
    LET urls == { JStr("https://images.example.com/soup.jpg"),
                  JStr("http://images.example.com/tea.png"),
                  JStr("javascript:alert(1)"), JStr("data:image/png;base64,AAAA"),
                  JStr("/images/soup.jpg"), JStr("") }
        more == urls \cup { JNum(5), JNull, ImageObject(JStr("https://images.example.com/soup.jpg")) }
    IN  urls \cup { JArr(<<u>>) : u \in more } \cup { JArr(<<>>) }
             \cup { ImageObject(u) : u \in more } \cup { JNum(5), JBool(TRUE) }

\* the pages: a body within the size limit with its blocks
PageArgs ==
    { Response(TRUE, 300, blocks) : blocks \in SeqsUpTo(PageBlocks, MaxCandidates) }
      \cup { Response(TRUE, 300, <<Block(Pictured(image))>>) : image \in ImageValues }

PageInit == PureInit(PageArgs)

PageApply == Applied("handlerAsync", handlerAsync(pure.arg))

SpecPage == PageInit /\ [][PageApply]_vars

\* C14: blocks that do not parse and candidates that are not Recipes, of any JSON shape,
\* cause no error: the request ends in 404 exactly when no candidate resolves to a
\* Recipe, and otherwise in 200 with the Recipe resolved from the candidates.
C14_NonRecipesAreNoErrors ==
    pure.fn = "handlerAsync" =>
      LET found == Resolved(ParsedCandidates(pure.arg.blocks))
      IN  IF found = NoItem THEN pure.out.status = 404
          ELSE /\ pure.out.status = 200
               /\ pure.out.data.name = Get(found, "name")

\* a string that parses as a URL of scheme http or https, or null
ImageOk(image) ==
    \/ image = JNull
    \/ /\ IsString(image)
       /\ ParseURL(image.v).ok
       /\ ParseURL(image.v).protocol \in {"http:", "https:"}

\* C15: in every Recipe returned with status 200 or stored in the cache, image is null
\* or a string that parses as a URL of scheme http or https, whatever the shape of the
\* image value of the source.
C15_ImageNullOrHttpUrl ==
    (pure.fn = "handlerAsync" /\ (pure.out.status = 200 \/ pure.out.store)) =>
      ImageOk(pure.out.data.image)

----------------------------------------------------------------------------
(* sanitizeText on its own, on names of the form <script>BODY</script>REST *)

ScriptBodies == {"alert(1)", "x", "var a = 1;", "document.cookie", "a < b", ""}

ScriptRests == {"Soup", " Stew", "Tea & Cake", "", "Pie <3"}

ScriptOpenTags == {"<script>", "<SCRIPT>", "<script type=\"text/javascript\">", "<script >"}

ScriptArgs ==
    { [text |-> open \o body \o "</script>" \o rest, body |-> body, rest |-> rest] :
        open \in ScriptOpenTags, body \in ScriptBodies, rest \in ScriptRests }

ScriptInit == PureInit(ScriptArgs)

ScriptApply == Applied("sanitizeText", sanitizeText(JStr(pure.arg.text)))

SpecScript == ScriptInit /\ [][ScriptApply]_vars

\* C16: sanitizing a text of the form <script>BODY</script>REST gives REST: the block
\* is removed together with the content between its tags.
C16_ScriptBlockRemoved ==
    pure.fn = "sanitizeText" => pure.out = JStr(pure.arg.rest)

----------------------------------------------------------------------------
(* sanitizeRecipe on its own, applied once and then again to its own result *)

\* texts with markup, among them texts in which a denylisted tag encloses another
Markup ==
    { "Soup", "<b>Soup</b>", "<script>alert(1)</script>Soup", "<scr<script>ipt>alert(1)",
      "<ifr<iframe>ame src=x>", "<img src=x onerror=alert(1)>",
      "<a href=\"javascript:alert(1)\">x</a>", "<p onclick=a() onload=b()>", "" }

ResultOf(name, description, ingredients, instructions) ==
    [name |-> JStr(name), description |-> JStr(description),
     ingredients |-> JArr(ingredients), instructions |-> JArr(instructions),
     servings |-> JNull, prepTime |-> JNull, cookTime |-> JNull, image |-> JNull]

SanitizeArgs ==
    { ResultOf(n, d, <<>>, <<>>) : n \in Markup, d \in Markup }
      \cup { ResultOf("Soup", "", <<JStr(i), JStr("Water")>>, <<JStr(j)>>) : i \in Markup, j \in Markup }

SanitizeInit == PureInit(SanitizeArgs)

SanitizeApply == Applied("sanitizeRecipe", sanitizeRecipe(pure.arg))

\* sanitizeRecipe is applied to the Recipe it has returned
SanitizeAgain ==
    /\ pure.fn = "sanitizeRecipe"
    /\ pure' = [fn |-> "sanitizeRecipe twice", arg |-> pure.out, out |-> sanitizeRecipe(pure.out)]
    /\ UNCHANGED progVars

SanitizeNext == SanitizeApply \/ SanitizeAgain

SpecSanitize == SanitizeInit /\ [][SanitizeNext]_vars

\* C17: sanitizeRecipe applied to a Recipe it has returned gives that Recipe again,
\* field by field.
C17_SanitizeIdempotent ==
    pure.fn = "sanitizeRecipe twice" =>
      /\ pure.out.name = pure.arg.name
      /\ pure.out.description = pure.arg.description
      /\ pure.out.ingredients = pure.arg.ingredients
      /\ pure.out.instructions = pure.arg.instructions
      /\ pure.out = pure.arg

----------------------------------------------------------------------------
(* The frame of a rejected checkRateLimit call *)

\* the earliest time from at on at which fewer than RATE_LIMIT_MAX of the timestamps ts
\* are inside the trailing window: the moment the client is allowed again
AllowedAgainAt(ts, at) ==
    LET times == {at} \cup {ts[i] + RATE_LIMIT_WINDOW_MS : i \in DOMAIN ts}
        free  == {T \in times : T >= at /\ CountInWindow(ts, T) < RATE_LIMIT_MAX}
    IN  CHOOSE T \in free : \A U \in free : T <= U

\* the step is a call of checkRateLimit that returned false
RejectedCallStep == rlCall'.n = rlCall.n + 1 /\ rlCall'.ret = FALSE

\* C18: a call of checkRateLimit that returns false records nothing: afterwards the
\* client's window holds exactly the timestamps that were inside the window before the
\* call, no other client's record changes, and the moment at which the client is
\* allowed again is the same as before the call.
C18_RejectedRecordsNothing ==
    [][RejectedCallStep =>
         /\ rlCall'.ip \in DOMAIN rateLimitMap
         /\ rateLimitMap' = [rateLimitMap EXCEPT ![rlCall'.ip] = InWindow(@, now)]
         /\ AllowedAgainAt(rateLimitMap'[rlCall'.ip], now)
              = AllowedAgainAt(rateLimitMap[rlCall'.ip], now)]_vars

\* a client was rejected twice in a row after the clock had advanced, and its window
\* still holds the RATE_LIMIT_MAX timestamps it held before the second rejected call
C18_Witness ==
    /\ rlCall.n > 0
    /\ rlCall.ret = FALSE
    /\ LastHist.rejSince >= 2
    /\ rlCall.at > 0
    /\ rlCall.ip \in DOMAIN rateLimitMap
    /\ rateLimitMap[rlCall.ip] = InWindow(rlCall.before, rlCall.at)
    /\ Len(rateLimitMap[rlCall.ip]) = RATE_LIMIT_MAX

----------------------------------------------------------------------------
(* The rate limiter next to the run in which the sweep never runs *)

\* one call of checkRateLimit(ip), made as well on the table that no sweep has touched
SweepCall(ip) ==
    /\ rlCall.n < MaxCalls
    /\ CallCheckRateLimit(ip)
    /\ \E r \in {checkRateLimit(unswept.map, ip, now)} : unswept' = [map |-> r.map, ret |-> r.ret]
    /\ UNCHANGED <<now, pure, cacheVars, reqVars>>

SweepNext ==
    \/ \E ip \in RLClients : SweepCall(ip)
    \/ sweep
    \/ Tick

SpecSweep == RLInit /\ [][SweepNext]_vars

\* every client of the table has a timestamp, and all its timestamps are in the window
AllLive(map, at) ==
    \A ip \in DOMAIN map :
        /\ Len(map[ip]) >= 1
        /\ \A i \in DOMAIN map[ip] : WithinWindow(map[ip][i], at)

\* C20: the sweep is invisible to clients: every call of checkRateLimit returns what the
\* same call returns in the run without any sweep; and after each sweep every client
\* left in the table has at least one timestamp, all of them inside the window.
C20_SweepInvisible ==
    /\ [](rlCall.n > 0 => rlCall.ret = unswept.ret)
    /\ [][sweep => AllLive(rateLimitMap', now)]_vars

\* a client that a sweep had removed from the table calls again: the call is accepted,
\* as it is in the run without the sweep, where the client's stale record is still there
C20_Witness ==
    /\ rlCall.n > 0
    /\ LastHist.calls > 1
    /\ rlCall.before = <<>>
    /\ rlCall.ret = TRUE
    /\ unswept.ret = TRUE
    /\ DOMAIN rateLimitMap # DOMAIN unswept.map

----------------------------------------------------------------------------
(* The first handler and the cache: requests one at a time, over more than one TTL *)

\* the cache starts empty, or with the results of two URLs stored at time 0: the URL
\* the requests ask for and one other
StorePrefills == {0, 2}

\* the module after nine requests of ClientA, all at time 0
StoreInit ==
    /\ now = 0
    /\ rateLimitMap = MapSet(EmptyMap, ClientA, Accepted(RATE_LIMIT_MAX - 1))
    /\ rlHist = MapSet(EmptyMap, ClientA,
                       [calls |-> RATE_LIMIT_MAX - 1, first |-> 0,
                        accepted |-> Accepted(RATE_LIMIT_MAX - 1), lastAcc |-> 0,
                        rejSince |-> 0, passed |-> Accepted(RATE_LIMIT_MAX - 1)])
    /\ rlCall = [n |-> RATE_LIMIT_MAX - 1, ip |-> ClientA, at |-> 0,
                 before |-> Accepted(RATE_LIMIT_MAX - 2), ret |-> TRUE, sinceAcc |-> 0]
    /\ \E n \in StorePrefills :
         /\ recipeCache = Prefilled(n)
         /\ stamp = PrefilledStamp(n)
    /\ cacheOp = NoCacheOp
    /\ req = NoRequests
    /\ last = NoRun
    /\ pure = NoPure
    /\ unswept = NoSweepRun

StoreConns == {[xff |-> "203.0.113.7, 10.0.0.1", realIp |-> "198.51.100.9", remote |-> "10.0.0.2"]}

StoreNext ==
    \/ \E method \in Methods, conn \in StoreConns, body \in Bodies :
         handler(1, method, conn, body)
    \/ \E outcome \in Outcomes : handlerResume(1, outcome)
    \/ Tick
    \/ Jump

SpecStore == StoreInit /\ [][StoreNext]_vars

\* the step starts a request
Starts == last'.n = last.n + 1

\* the step takes a request to its fetch
ToFetch == \E i \in Slots : req[i].pc = "idle" /\ req'[i].pc = "fetching"

\* the step ends a request after its fetch
FromFetch == \E i \in Slots : req[i].pc = "fetching" /\ req'[i].pc = "idle"

\* the step ends a request: last' is what is observed of it
Ends == (Starts /\ req' = req) \/ FromFetch

\* the URL of the request that makes the step
StepUrl ==
    IF ToFetch
    THEN req'[CHOOSE i \in Slots : req[i].pc = "idle" /\ req'[i].pc = "fetching"].url
    ELSE last'.url

\* the step is the lookup of a request and removes the entry of the request's URL,
\* which is older than the TTL, and nothing else
OwnExpiredRemoved ==
    /\ Starts
    /\ StepUrl \in KeysOf(recipeCache)
    /\ now - EntryOf(recipeCache, StepUrl).timestamp > CACHE_TTL_MS
    /\ recipeCache' = SelectSeq(recipeCache, LAMBDA e : e.url # StepUrl)

\* the step ends a request that missed the cache with a fresh result and stores it
StoredFresh ==
    /\ FromFetch
    /\ last'.status = 200
    /\ last'.xcache = "MISS"
    /\ last'.fetched
    /\ KeysOf(recipeCache') \ KeysOf(recipeCache) \subseteq {last'.url}
    /\ last'.url \in KeysOf(recipeCache')
    /\ EntryOf(recipeCache', last'.url).data = last'.data

\* the statuses of the requests that store nothing
NoStoreStatuses == {400, 404, 405, 429, 500, 502, 504}

\* C19: a cache entry is created only by a request that missed the cache and ended with
\* status 200 and a fresh result; a request ending in 400, 404, 405, 429, 500, 502 or
\* 504, and an OPTIONS request, leaves the keys and the stored values of the cache as
\* they were, except that its lookup may remove the expired entry of its own URL.
C19_OnlyFreshResultsStored ==
    [][/\ (recipeCache' # recipeCache) => (StoredFresh \/ OwnExpiredRemoved)
       /\ (Ends /\ (last'.status \in NoStoreStatuses \/ last'.method = "OPTIONS")) =>
             (recipeCache' = recipeCache \/ OwnExpiredRemoved)]_vars

\* a request found the entry of its URL expired, removed it, fetched the page and ended
\* with 404: its URL is gone from the cache, the entry of the other URL is still there
C19_Witness ==
    /\ last.status = 404
    /\ last.fetched
    /\ last.url \in stamp.seen
    /\ last.url \notin KeysOf(recipeCache)
    /\ stamp.expired = 1
    /\ CacheKey(2) \in KeysOf(recipeCache)
    /\ cacheOp.fn = "getCached"
    /\ cacheOp.url = last.url

====
